---- MODULE Spec2Model ----
(***************************************************************************)
(* Verification model of the complexity-inference pipeline of the          *)
(* Algorithmic-Complexity-Analyzer: RecursionDetector, RecurrenceSolver,   *)
(* CaseAnalyzer, ComplexityAnalyzer and PatternClassifier.                 *)
(*                                                                         *)
(* Python strings are modelled as sequences of one-character strings so    *)
(* that substring tests, replace, split and lower are computed and not     *)
(* assumed.  Python lists are records tagged "list", None is the record    *)
(* tagged "none", and AST dictionaries are records carrying their "type".  *)
(***************************************************************************)
EXTENDS Integers, Sequences, FiniteSets, TLC

\* ------------------------------------------------------------------------
\* Python str operations
\* ------------------------------------------------------------------------
Contains(s, t) ==
    \E i \in 1..(Len(s) - Len(t) + 1) : SubSeq(s, i, i + Len(t) - 1) = t

StartsWith(s, t) ==
    Len(s) >= Len(t) /\ SubSeq(s, 1, Len(t)) = t

LowerChar(c) ==
    CASE c = "A" -> "a" [] c = "B" -> "b" [] c = "C" -> "c" [] c = "D" -> "d"
      [] c = "E" -> "e" [] c = "F" -> "f" [] c = "G" -> "g" [] c = "H" -> "h"
      [] c = "I" -> "i" [] c = "J" -> "j" [] c = "K" -> "k" [] c = "L" -> "l"
      [] c = "M" -> "m" [] c = "N" -> "n" [] c = "O" -> "o" [] c = "P" -> "p"
      [] c = "Q" -> "q" [] c = "R" -> "r" [] c = "S" -> "s" [] c = "T" -> "t"
      [] c = "U" -> "u" [] c = "V" -> "v" [] c = "W" -> "w" [] c = "X" -> "x"
      [] c = "Y" -> "y" [] c = "Z" -> "z" [] OTHER -> c

Lower(s) == [i \in 1..Len(s) |-> LowerChar(s[i])]

RECURSIVE Replace(_, _, _)
Replace(s, old, new) ==
    IF Len(s) < Len(old) \/ Len(old) = 0 THEN s
    ELSE IF SubSeq(s, 1, Len(old)) = old
         THEN new \o Replace(SubSeq(s, Len(old) + 1, Len(s)), old, new)
         ELSE <<s[1]>> \o Replace(Tail(s), old, new)

RECURSIVE LStrip(_)
LStrip(s) == IF Len(s) > 0 /\ s[1] = " " THEN LStrip(Tail(s)) ELSE s

RECURSIVE RStrip(_)
RStrip(s) ==
    IF Len(s) > 0 /\ s[Len(s)] = " " THEN RStrip(SubSeq(s, 1, Len(s) - 1)) ELSE s

Strip(s) == RStrip(LStrip(s))

\* str.split(sep) for a one-character separator: the sequence of pieces
RECURSIVE SplitFrom(_, _, _)
SplitFrom(s, sep, cur) ==
    IF Len(s) = 0 THEN <<cur>>
    ELSE IF s[1] = sep THEN <<cur>> \o SplitFrom(Tail(s), sep, << >>)
         ELSE SplitFrom(Tail(s), sep, Append(cur, s[1]))

Split(s, sep) == SplitFrom(s, sep, << >>)

Digits == <<"0", "1", "2", "3", "4", "5", "6", "7", "8", "9">>

IsDigit(c) == \E d \in 1..10 : Digits[d] = c

DigitVal(c) == (CHOOSE d \in 1..10 : Digits[d] = c) - 1

IsDigits(s) == Len(s) > 0 /\ \A i \in 1..Len(s) : IsDigit(s[i])

RECURSIVE DigitsVal(_)
DigitsVal(s) ==
    IF Len(s) = 0 THEN 0
    ELSE 10 * DigitsVal(SubSeq(s, 1, Len(s) - 1)) + DigitVal(s[Len(s)])

\* int(s): << v >> when s, stripped, is an optionally signed run of digits,
\* << >> when int() raises ValueError
ParseInt(s) ==
    LET t == Strip(s) IN
    IF IsDigits(t) THEN <<DigitsVal(t)>>
    ELSE IF Len(t) > 1 /\ t[1] = "-" /\ IsDigits(Tail(t)) THEN <<0 - DigitsVal(Tail(t))>>
    ELSE << >>

\* float(s) in hundredths: << 100*v >> for "d", "d.d", "d.dd"; << >> when
\* float() raises ValueError (any other text: the solver only writes these)
ParseFloat(s) ==
    LET t == Strip(s)
        ps == Split(t, ".")
    IN  IF IsDigits(t) THEN <<100 * DigitsVal(t)>>
        ELSE IF Len(ps) = 2 /\ IsDigits(ps[1]) /\ IsDigits(ps[2]) /\ Len(ps[2]) <= 2
             THEN <<100 * DigitsVal(ps[1])
                    + (IF Len(ps[2]) = 1 THEN 10 * DigitsVal(ps[2]) ELSE DigitsVal(ps[2]))>>
             ELSE << >>

RECURSIVE NatStr(_)
NatStr(k) == IF k < 10 THEN <<Digits[k + 1]>> ELSE NatStr(k \div 10) \o <<Digits[(k % 10) + 1]>>

\* str(k) / f"{k}" of an int
IntStr(k) == IF k < 0 THEN <<"-">> \o NatStr(0 - k) ELSE NatStr(k)

\* f"{x:.2f}" of a non-negative value given in hundredths
Fmt2f(h) == NatStr(h \div 100) \o <<".">> \o <<Digits[((h \div 10) % 10) + 1], Digits[(h % 10) + 1]>>

\* str(x) / f"{x}" of a non-negative float given in hundredths (shortest repr)
FloatStr(h) ==
    NatStr(h \div 100) \o <<".">> \o
    (IF h % 10 = 0 THEN <<Digits[((h \div 10) % 10) + 1]>>
     ELSE <<Digits[((h \div 10) % 10) + 1], Digits[(h % 10) + 1]>>)

\* ------------------------------------------------------------------------
\* RecurrenceSolver (analyzer/recurrence.py)
\* ------------------------------------------------------------------------
\* math.log(a) / math.log(b) in millionths, rounded down, for a in 1..9 and
\* b in 2..9 (row a, column b - 1); in this range the quotient is an exact
\* integer exactly when a is a power of b
LogTable ==
    <<
       <<0, 0, 0, 0, 0, 0, 0, 0>>,
       <<1000000, 630929, 500000, 430676, 386852, 356207, 333333, 315464>>,
       <<1584962, 1000000, 792481, 682606, 613147, 564575, 528320, 500000>>,
       <<2000000, 1261859, 1000000, 861353, 773705, 712414, 666666, 630929>>,
       <<2321928, 1464973, 1160964, 1000000, 898244, 827087, 773976, 732486>>,
       <<2584962, 1630929, 1292481, 1113282, 1000000, 920782, 861654, 815464>>,
       <<2807354, 1771243, 1403677, 1209061, 1086033, 1000000, 935784, 885621>>,
       <<3000000, 1892789, 1500000, 1292029, 1160558, 1068621, 1000000, 946394>>,
       <<3169925, 2000000, 1584962, 1365212, 1226294, 1129150, 1056641, 1000000>>
    >>

\* c = math.log(a) / math.log(b): defined for a >= 1 and b >= 2; math.log
\* raises ValueError for an argument <= 0 and the division raises
\* ZeroDivisionError for b = 1
LogDefined(a, b) == a >= 1 /\ b >= 2

LogRatio(a, b) == LogTable[a][b - 1]



RecurrenceRelation(a, b, f, rt) ==
    [a |-> a, b |-> b, f_complexity |-> f, reduction_type |-> rt]

\* RecurrenceRelation.__str__
RelationStr(rec) ==
    IF rec.reduction_type = "divide"
    THEN <<"T","(","n",")"," ","="," ">> \o IntStr(rec.a) \o <<"T","(","n","/">> \o IntStr(rec.b) \o <<")"," ","+"," ","O","(">>
         \o rec.f_complexity \o <<")">>
    ELSE <<"T","(","n",")"," ","="," ">> \o IntStr(rec.a) \o <<"T","(","n","-">> \o IntStr(rec.b) \o <<")"," ","+"," ","O","(">>
         \o rec.f_complexity \o <<")">>

RecurrenceSolution(rel, cpx, method) ==
    [relation |-> rel, complexity |-> cpx, method |-> method, raised |-> FALSE]

\* the call did not return: an exception left the solver
SolveRaised ==
    [relation |-> << >>, complexity |-> << >>, method |-> "raised", raised |-> TRUE]

BigO(label) == <<"O","(">> \o label \o <<")">>

\* _get_polynomial_degree: << >> is None, << d >> the degree in hundredths
\* (0 and 1 are the ints of the first two branches, anything else a float)
GetPolynomialDegree(f_str) ==
    LET f == Lower(Strip(f_str)) IN
    IF f = <<"1">> THEN <<0>>
    ELSE IF f = <<"n">> THEN <<100>>
    ELSE IF Contains(f, <<"^">>) THEN ParseFloat(Split(f, "^")[2])
    ELSE << >>

\* abs(x - int(x)) < 0.01 for x >= 0 in hundredths
NearInt100(d) == d % 100 = 0

SolveDivideAndConquer(rec) ==
    LET a == rec.a
        b == rec.b
        f == rec.f_complexity
        relation_str == <<"T","(","n",")"," ","="," ">> \o IntStr(a) \o <<"T","(","n","/">> \o IntStr(b) \o <<")"," ","+"," ","O","(">>
                        \o f \o <<")">>
        f_degree == GetPolynomialDegree(f)
    IN
    IF ~LogDefined(a, b) THEN SolveRaised
    ELSE
    LET c == LogRatio(a, b)
        intc == c \div 1000000
        cNearInt == (c % 1000000) < 10000            \* abs(c - int(c)) < 0.01
        c2f == Fmt2f((c + 5000) \div 10000)        \* f"{c:.2f}"
    IN
    IF f_degree # << >> THEN
        LET d == f_degree[1] IN
        IF d * 10000 < c THEN
            \* Caso 1
            LET complexity ==
                  IF cNearInt
                  THEN IF intc = 0 THEN <<"1">>
                       ELSE IF intc = 1 THEN <<"n">>
                       ELSE <<"n","^">> \o IntStr(intc)
                  ELSE <<"n","^">> \o c2f
            IN RecurrenceSolution(relation_str, BigO(complexity), "Master Theorem - Caso 1")
        ELSE IF d * 10000 - c < 10000 THEN
            \* Caso 2: abs(f_degree - c) < 0.01
            LET complexity ==
                  IF c < 10000 THEN <<"l","o","g","(","n",")">>
                  ELSE IF c > 990000 /\ c < 1010000 THEN <<"n"," ","*"," ","l","o","g","(","n",")">>
                  ELSE IF cNearInt
                  THEN IF intc = 0 THEN <<"l","o","g","(","n",")">>
                       ELSE IF intc = 1 THEN <<"n"," ","*"," ","l","o","g","(","n",")">>
                       ELSE <<"n","^">> \o IntStr(intc) \o <<" ","*"," ","l","o","g","(","n",")">>
                  ELSE <<"n","^">> \o c2f \o <<" ","*"," ","l","o","g","(","n",")">>
            IN RecurrenceSolution(relation_str, BigO(complexity), "Master Theorem - Caso 2")
        ELSE
            \* Caso 3
            LET complexity ==
                  IF d < 1 THEN <<"1">>
                  ELSE IF d = 100 THEN <<"n">>
                  ELSE IF NearInt100(d) THEN <<"n","^">> \o IntStr(d \div 100)
                  ELSE <<"n","^">> \o FloatStr(d)
            IN RecurrenceSolution(relation_str, BigO(complexity), "Master Theorem - Caso 3")
    ELSE IF Contains(f, <<"l","o","g">>) THEN
        LET complexity == IF a = b THEN <<"n"," ","*"," ","l","o","g","^","2","(","n",")">> ELSE <<"n"," ","*"," ","l","o","g","(","n",")">>
        IN RecurrenceSolution(relation_str, BigO(complexity), "Master Theorem - Caso especial")
    ELSE RecurrenceSolution(relation_str, <<"O","(","n"," ","*"," ","l","o","g"," ","n",")">>, "Master Theorem (estimado)")

\* a solver that writes the factor of f(n) even when f(n) is constant
ExpLabelWithFactor(f_degree, base) ==
    LET d == f_degree[1] IN
    IF d <= 100 THEN <<"n"," ","*"," ">> \o base \o <<"^","n">>
    ELSE <<"n","^">> \o IntStr(d \div 100) \o <<" ","*"," ">> \o base \o <<"^","n">>

\* the label for T(n) = aT(n-b) + f(n) with a >= 2 (base is the text of a)
ExpLabel(f_degree, base) ==
    LET d == f_degree[1] IN
    IF d = 0 THEN base \o <<"^","n">>
    ELSE IF d = 100 THEN <<"n"," ","*"," ">> \o base \o <<"^","n">>
    ELSE IF NearInt100(d) THEN <<"n","^">> \o IntStr(d \div 100) \o <<" ","*"," ">> \o base \o <<"^","n">>
    ELSE <<"n","^">> \o FloatStr(d) \o <<" ","*"," ">> \o base \o <<"^","n">>

SolveLinearRecursion(rec) ==
    LET a == rec.a
        b == rec.b
        f == rec.f_complexity
        relation_str == <<"T","(","n",")"," ","="," ">> \o IntStr(a) \o <<"T","(","n","-">> \o IntStr(b) \o <<")"," ","+"," ","O","(">>
                        \o f \o <<")">>
        f_degree == GetPolynomialDegree(f)
    IN
    \* with f_degree None, f_degree + 1 and int(f_degree) raise TypeError
    IF f_degree = << >> THEN SolveRaised
    ELSE
    LET d == f_degree[1]
        complexity ==
          IF a = 1
          THEN IF d = 0 THEN <<"n">>
               ELSE IF d = 100 THEN <<"n","^","2">>
               ELSE <<"n","^">> \o FloatStr(d + 100)
          ELSE IF a = 2 THEN ExpLabel(f_degree, <<"2">>)
          ELSE ExpLabel(f_degree, IntStr(a))
    IN RecurrenceSolution(relation_str, BigO(complexity), "Expansion directa")

\* RecurrenceSolver.solve
Solve(rec) ==
    IF rec.reduction_type = "divide" THEN SolveDivideAndConquer(rec)
    ELSE IF rec.reduction_type = "subtract" THEN SolveLinearRecursion(rec)
    ELSE RecurrenceSolution(RelationStr(rec), <<"O","(","?",")">>, "Unknown")

\* ------------------------------------------------------------------------
\* AST nodes as the parser builds them (parser/parser.py)
\* ------------------------------------------------------------------------
None == [type |-> "none"]

List(items) == [type |-> "list", items |-> items]

Var(name) == [type |-> "var", value |-> name]

Number(v) == [type |-> "number", value |-> v]

Boolean(v) == [type |-> "boolean", value |-> v]

\* a string-function node of kind length (tok.type.name.lower())
Length == [type |-> "length"]

BinOp(op, left, right) == [type |-> "binop", op |-> op, left |-> left, right |-> right]

Unary(operand) == [type |-> "unary", op |-> "MINUS", operand |-> operand]

ArrayAccess(array, index) == [type |-> "array_access", array |-> array, index |-> index]

Call(name, args) == [type |-> "call", name |-> name, args |-> List(args)]

CallExpr(name, args) == [type |-> "call_expr", name |-> name, args |-> List(args)]

Assign(target, expr) == [type |-> "assign", target |-> target, expr |-> expr]

Return(expr) == [type |-> "return", expr |-> expr]

If(cond, then, else) == [type |-> "if", cond |-> cond, then |-> then, else |-> else]

Block(stmts) == [type |-> "block", body |-> List(stmts)]

For(var, start, end, body) ==
    [type |-> "for", var |-> var, start |-> start, end |-> end, body |-> body]

While(cond, body) == [type |-> "while", cond |-> cond, body |-> body]

Repeat(stmts, cond) == [type |-> "repeat", body |-> List(stmts), cond |-> cond]

PrimitiveParam(name) == [type |-> "primitive_param", name |-> name]

ProcedureDecl(name, params, body) ==
    [type |-> "procedure_decl", name |-> name, params |-> List(params), body |-> body]

Program(procedures, body) == [type |-> "program", procedures |-> procedures, body |-> body]

IsList(node) == node.type = "list"

IsDict(node) == node.type \notin {"list", "none"}

NonNone(seq) == SelectSeq(seq, LAMBDA x : x.type # "none")

\* the values of a dict node that are themselves dicts or lists, in key
\* order: what "for v in node.values(): if isinstance(v, (dict, list))" visits
Children(node) ==
    CASE node.type = "binop" -> <<node.left, node.right>>
      [] node.type = "unary" -> <<node.operand>>
      [] node.type = "array_access" -> <<node.array, node.index>>
      [] node.type \in {"call", "call_expr"} -> <<node.args>>
      [] node.type = "assign" -> <<node.target, node.expr>>
      [] node.type = "return" -> NonNone(<<node.expr>>)
      [] node.type = "if" -> NonNone(<<node.cond, node.then, node.else>>)
      [] node.type = "block" -> <<node.body>>
      [] node.type = "for" -> <<node.start, node.end, node.body>>
      [] node.type = "while" -> <<node.cond, node.body>>
      [] node.type = "repeat" -> <<node.body, node.cond>>
      [] node.type = "procedure_decl" -> <<node.params, node.body>>
      [] OTHER -> << >>

\* what a generic walk descends into: the items of a list, the dict/list
\* values of a dict
Kids(node) ==
    IF IsList(node) THEN node.items
    ELSE IF IsDict(node) THEN Children(node)
    ELSE << >>

RECURSIVE SeqSum(_)
SeqSum(s) == IF Len(s) = 0 THEN 0 ELSE Head(s) + SeqSum(Tail(s))

SeqMax(a, b) == IF a >= b THEN a ELSE b

CountOf(s, x) == Cardinality({i \in 1..Len(s) : s[i] = x})

\* ------------------------------------------------------------------------
\* RecursionDetector (analyzer/recursion.py)
\* ------------------------------------------------------------------------
RecursionInfo(is_rec, rtype, count, calls, pattern, sub, combine) ==
    [is_recursive |-> is_rec, recursion_type |-> rtype, call_count |-> count,
     calls_to |-> calls, depth_pattern |-> pattern, subproblem |-> sub,
     has_combining_work |-> combine]

ProcNames(prog) == {prog.procedures[i].name : i \in 1..Len(prog.procedures)}

\* self.procedures[name]: the last declaration of that name
ProcAst(prog, name) ==
    prog.procedures[CHOOSE i \in 1..Len(prog.procedures) :
                        /\ prog.procedures[i].name = name
                        /\ \A j \in (i + 1)..Len(prog.procedures) :
                               prog.procedures[j].name # name]

RECURSIVE FindAllCalls(_)
RECURSIVE FindAllCallsIn(_)
FindAllCalls(node) ==
    IF IsList(node) THEN FindAllCallsIn(node.items)
    ELSE IF IsDict(node)
    THEN (IF node.type \in {"call", "call_expr"} THEN <<node.name>> ELSE << >>)
         \o FindAllCallsIn(Children(node))
    ELSE << >>
FindAllCallsIn(seq) ==
    IF Len(seq) = 0 THEN << >> ELSE FindAllCalls(Head(seq)) \o FindAllCallsIn(Tail(seq))

\* _build_call_graph
CallGraph(prog) == [p \in ProcNames(prog) |-> FindAllCalls(ProcAst(prog, p).body)]

\* _has_cycle with its shared, mutated visited set: the result and the
\* visited set after the call
RECURSIVE HasCycle(_, _, _, _)
RECURSIVE HasCycleOver(_, _, _, _, _)
HasCycle(prog, current, visited, path) ==
    IF current \in visited
    THEN [res |-> \E i \in 1..Len(path) : path[i] = current, visited |-> visited]
    ELSE HasCycleOver(prog, CallGraph(prog)[current], 1, visited \cup {current}, path)
HasCycleOver(prog, callees, i, visited, path) ==
    IF i > Len(callees) THEN [res |-> FALSE, visited |-> visited]
    ELSE IF callees[i] \in ProcNames(prog)
    THEN LET r == HasCycle(prog, callees[i], visited, Append(path, callees[i]))
         IN  IF r.res THEN r
             ELSE HasCycleOver(prog, callees, i + 1, r.visited, path)
    ELSE HasCycleOver(prog, callees, i + 1, visited, path)

RECURSIVE IsTailRecursive(_, _)
RECURSIVE AllTailRecursive(_, _)
IsTailRecursive(proc_name, node) ==
    IF IsList(node)
    THEN IF Len(node.items) > 0
         THEN IsTailRecursive(proc_name, node.items[Len(node.items)])
         ELSE FALSE
    ELSE IF IsDict(node)
    THEN IF node.type = "block"
         THEN IF Len(node.body.items) > 0
              THEN IsTailRecursive(proc_name, node.body.items[Len(node.body.items)])
              ELSE FALSE
         ELSE IF node.type = "if"
         THEN IsTailRecursive(proc_name, node.then) /\ IsTailRecursive(proc_name, node.else)
         ELSE IF node.type \in {"call", "call_expr"}
         THEN node.name = proc_name
         ELSE AllTailRecursive(proc_name, Children(node))
    ELSE FALSE
AllTailRecursive(proc_name, seq) ==
    \A i \in 1..Len(seq) : IsTailRecursive(proc_name, seq[i])

RECURSIVE CountRecursiveCallsInBody(_, _)
RECURSIVE CountRecursiveCallsIn(_, _)
CountRecursiveCallsInBody(proc_name, node) ==
    IF IsList(node) THEN CountRecursiveCallsIn(proc_name, node.items)
    ELSE IF IsDict(node)
    THEN (IF node.type \in {"call", "call_expr"} /\ node.name = proc_name THEN 1 ELSE 0)
         + CountRecursiveCallsIn(proc_name, Children(node))
    ELSE 0
CountRecursiveCallsIn(proc_name, seq) ==
    IF Len(seq) = 0 THEN 0
    ELSE CountRecursiveCallsInBody(proc_name, Head(seq))
         + CountRecursiveCallsIn(proc_name, Tail(seq))

RECURSIVE FindMidpointVariables(_)
FindMidpointVariables(node) ==
    IF IsList(node)
    THEN UNION {FindMidpointVariables(node.items[i]) : i \in 1..Len(node.items)}
    ELSE IF IsDict(node)
    THEN (IF /\ node.type = "assign"
             /\ node.target.type = "var"
             /\ node.expr.type = "binop"
             /\ node.expr.op \in {"DIV_INT", "DIV"}
             /\ node.expr.left.type = "binop"
             /\ node.expr.left.op = "PLUS"
             /\ node.expr.left.left.type = "var"
             /\ node.expr.left.right.type = "var"
          THEN {node.target.value} ELSE {})
         \cup UNION {FindMidpointVariables(Children(node)[i]) : i \in 1..Len(Children(node))}
    ELSE {}

RECURSIVE FindRecursiveCallNodes(_, _)
RECURSIVE FindRecursiveCallNodesIn(_, _)
FindRecursiveCallNodes(proc_name, node) ==
    IF IsList(node) THEN FindRecursiveCallNodesIn(proc_name, node.items)
    ELSE IF IsDict(node)
    THEN (IF node.type \in {"call", "call_expr"} /\ node.name = proc_name
          THEN <<node>> ELSE << >>)
         \o FindRecursiveCallNodesIn(proc_name, Children(node))
    ELSE << >>
FindRecursiveCallNodesIn(proc_name, seq) ==
    IF Len(seq) = 0 THEN << >>
    ELSE FindRecursiveCallNodes(proc_name, Head(seq))
         \o FindRecursiveCallNodesIn(proc_name, Tail(seq))

\* the evidence one argument of a recursive call adds (the code appends to
\* a list that is only ever tested for membership)
ArgEvidence(arg, midpoint_vars) ==
    (IF /\ arg.type = "binop" /\ arg.op \in {"DIV", "DIV_INT"}
        /\ arg.right.type = "number" /\ arg.right.value = 2
     THEN {<<"n","/","2">>} ELSE {})
    \cup
    (IF /\ arg.type = "binop" /\ arg.op \in {"MINUS", "PLUS"}
        /\ arg.left.type = "var" /\ arg.left.value \in midpoint_vars
        /\ arg.right.type = "number" /\ arg.right.value = 1
     THEN {<<"n","/","2">>} ELSE {})
    \cup
    (IF arg.type = "var" /\ arg.value \in midpoint_vars THEN {<<"n","/","2">>} ELSE {})
    \cup
    (IF /\ arg.type = "binop" /\ arg.op = "MINUS"
        /\ arg.right.type = "number" /\ arg.right.value = 1
     THEN {<<"n","-","1">>} ELSE {})
    \cup
    (IF arg.type \in {"slice", "subarray"} THEN {<<"s","l","i","c","e">>} ELSE {})

InferSubproblemFromProc(proc_name, body) ==
    LET midpoint_vars == FindMidpointVariables(body)
        calls == FindRecursiveCallNodes(proc_name, body)
        evidence == UNION {UNION {ArgEvidence(calls[i].args.items[j], midpoint_vars) :
                                    j \in 1..Len(calls[i].args.items)} :
                             i \in 1..Len(calls)}
    IN  IF Len(calls) = 0 THEN <<"u","n","k","n","o","w","n">>
        ELSE IF <<"n","/","2">> \in evidence THEN <<"n","/","2">>
        ELSE IF <<"s","l","i","c","e">> \in evidence THEN <<"s","l","i","c","e">>
        ELSE IF <<"n","-","1">> \in evidence /\ <<"n","/","2">> \notin evidence THEN <<"n","-","1">>
        ELSE <<"u","n","k","n","o","w","n">>

RECURSIVE BodyContainsArrayCopy(_)
BodyContainsArrayCopy(body) ==
    IF IsDict(body) /\ body.type = "block"
    THEN \E i \in 1..Len(body.body.items) :
            LET stmt == body.body.items[i] IN
            \/ /\ stmt.type = "assign"
               /\ stmt.target.type = "array_access"
               /\ stmt.expr.type = "array_access"
            \/ BodyContainsArrayCopy(stmt)
    ELSE IF IsList(body)
    THEN \E i \in 1..Len(body.items) : BodyContainsArrayCopy(body.items[i])
    ELSE IF IsDict(body)
    THEN \E i \in 1..Len(Children(body)) : BodyContainsArrayCopy(Children(body)[i])
    ELSE FALSE

RECURSIVE HasCombiningWork(_)
HasCombiningWork(node) ==
    IF IsList(node)
    THEN \E i \in 1..Len(node.items) : HasCombiningWork(node.items[i])
    ELSE IF IsDict(node)
    THEN \/ /\ node.type = "while"
            /\ \/ (node.cond.type = "binop" /\ node.cond.op = "AND")
               \/ BodyContainsArrayCopy(node.body)
         \/ \E i \in 1..Len(Children(node)) : HasCombiningWork(Children(node)[i])
    ELSE FALSE

\* _detect_direct_recursion, _detect_indirect_recursion, _detect_tail_recursion
\* and _analyze_depth_pattern for one procedure
DetectProc(prog, p) ==
    LET body == ProcAst(prog, p).body
        calls == CallGraph(prog)[p]
        recursive_calls == CountOf(calls, p)
        direct == recursive_calls > 0
        indirect == ~direct /\ HasCycle(prog, p, {}, <<p>>).res
        is_recursive == direct \/ indirect
        tail == is_recursive /\ IsTailRecursive(p, body)
        count == CountRecursiveCallsInBody(p, body)
        subproblem == InferSubproblemFromProc(p, body)
        divides == StartsWith(subproblem, <<"n","/">>)
    IN  IF ~is_recursive
        THEN RecursionInfo(FALSE, "none", 0, calls, "unknown", <<"u","n","k","n","o","w","n">>, FALSE)
        ELSE RecursionInfo(TRUE,
                           IF tail THEN "tail" ELSE IF direct THEN "direct" ELSE "indirect",
                           IF direct THEN recursive_calls ELSE 0,
                           calls,
                           IF count = 1
                           THEN IF divides THEN "divide_and_conquer" ELSE "linear"
                           ELSE IF count >= 2
                           THEN IF divides THEN "divide_and_conquer" ELSE "tree"
                           ELSE "unknown",
                           subproblem,
                           HasCombiningWork(body))

\* RecursionDetector.analyze
DetectorAnalyze(prog) == [p \in ProcNames(prog) |-> DetectProc(prog, p)]

\* ------------------------------------------------------------------------
\* RecurrenceSolver.infer_from_ast and its helpers (analyzer/recurrence.py)
\* ------------------------------------------------------------------------
RECURSIVE CountActiveRecursiveCalls(_, _)
RECURSIVE CountActiveIn(_, _)
CountActiveRecursiveCalls(node, proc_name) ==
    IF IsList(node) THEN CountActiveIn(node.items, proc_name)
    ELSE IF IsDict(node)
    THEN IF node.type = "if"
         THEN LET then_count == CountActiveRecursiveCalls(node.then, proc_name) IN
              IF node.else.type # "none"
              THEN SeqMax(then_count, CountActiveRecursiveCalls(node.else, proc_name))
              ELSE then_count
         ELSE IF node.type = "block"
         THEN CountActiveIn(node.body.items, proc_name)
         ELSE IF node.type = "call" /\ node.name = proc_name
         THEN 1
         ELSE CountActiveIn(Children(node), proc_name)
    ELSE 0
CountActiveIn(seq, proc_name) ==
    IF Len(seq) = 0 THEN 0
    ELSE CountActiveRecursiveCalls(Head(seq), proc_name) + CountActiveIn(Tail(seq), proc_name)

\* _find_recursive_calls: every node of type "call", whatever it calls
RECURSIVE FindRecursiveCalls(_)
RECURSIVE FindRecursiveCallsIn(_)
FindRecursiveCalls(node) ==
    IF IsList(node) THEN FindRecursiveCallsIn(node.items)
    ELSE IF IsDict(node)
    THEN (IF node.type = "call" THEN <<node>> ELSE << >>)
         \o FindRecursiveCallsIn(Children(node))
    ELSE << >>
FindRecursiveCallsIn(seq) ==
    IF Len(seq) = 0 THEN << >>
    ELSE FindRecursiveCalls(Head(seq)) \o FindRecursiveCallsIn(Tail(seq))

IsMidpointVariable(var_name) ==
    Lower(var_name) \in {<<"m","e","d","i","o">>, <<"m","i","d">>, <<"m","i","t","a","d">>, <<"m","i","d","d","l","e">>, <<"m">>}

RECURSIVE AllArgs(_)
AllArgs(calls) ==
    IF Len(calls) = 0 THEN << >> ELSE Head(calls).args.items \o AllArgs(Tail(calls))

ArgDividesByMidpoint(arg) ==
    /\ arg.type = "binop"
    /\ arg.op \in {"MINUS", "PLUS"}
    /\ arg.left.type = "var"
    /\ IsMidpointVariable(arg.left.value)

ArgDividesDirectly(arg) ==
    /\ arg.type = "binop"
    /\ arg.op \in {"DIV", "DIV_INT"}
    /\ arg.right.type = "number"

\* _analyze_reduction_from_calls: the first argument, in call order, that
\* shows a division decides
AnalyzeReductionFromCalls(calls) ==
    LET args == AllArgs(calls)
        hits == {i \in 1..Len(args) : ArgDividesByMidpoint(args[i]) \/ ArgDividesDirectly(args[i])}
    IN  IF hits = {} THEN [reduction_type |-> "subtract", b |-> 1]
        ELSE LET first == CHOOSE i \in hits : \A j \in hits : i <= j IN
             IF ArgDividesByMidpoint(args[first])
             THEN [reduction_type |-> "divide", b |-> 2]
             ELSE [reduction_type |-> "divide", b |-> args[first].right.value]

IsLoop(node) == node.type \in {"for", "while", "repeat"}

\* _quick_loop_check: max_depth
RECURSIVE QuickLoopCheck(_, _)
RECURSIVE QuickLoopCheckIn(_, _)
QuickLoopCheck(node, loop_depth) ==
    IF IsList(node) THEN QuickLoopCheckIn(node.items, loop_depth)
    ELSE IF IsDict(node)
    THEN IF IsLoop(node)
         THEN SeqMax(loop_depth + 1, QuickLoopCheck(node.body, loop_depth + 1))
         ELSE QuickLoopCheckIn(Children(node), loop_depth)
    ELSE 0
QuickLoopCheckIn(seq, loop_depth) ==
    IF Len(seq) = 0 THEN 0
    ELSE SeqMax(QuickLoopCheck(Head(seq), loop_depth), QuickLoopCheckIn(Tail(seq), loop_depth))

PolyLabel(d) == IF d = 1 THEN <<"n">> ELSE <<"n","^">> \o IntStr(d)

\* _get_procedure_complexity
GetProcedureComplexity(proc_name, prog) ==
    IF proc_name \in ProcNames(prog)
    THEN LET max_depth == QuickLoopCheck(ProcAst(prog, proc_name).body, 0) IN
         IF max_depth > 0 THEN PolyLabel(max_depth) ELSE <<"1">>
    ELSE <<"1">>

\* _complexity_greater_than
ComplexityRank(c) ==
    LET s == Lower(Strip(c)) IN
    CASE s = <<"1">> -> 0
      [] s = <<"l","o","g","(","n",")">> -> 1
      [] s = <<"s","q","r","t","(","n",")">> -> 2
      [] s = <<"n">> -> 3
      [] s = <<"n","*","l","o","g","(","n",")">> -> 4
      [] s = <<"n","^","2">> -> 5
      [] s = <<"n","^","3">> -> 6
      [] s = <<"2","^","n">> -> 7
      [] OTHER -> 3

ComplexityGreaterThan(comp1, comp2) == ComplexityRank(comp1) > ComplexityRank(comp2)

\* analyze_node of _analyze_non_recursive_work_v2: what the walk meets, in
\* visiting order (a loop with its nesting depth, an assignment outside a
\* loop, a call to another procedure)
WorkEvent(kind, d, name) == [kind |-> kind, d |-> d, name |-> name]

RECURSIVE AnalyzeNode(_, _, _, _)
RECURSIVE AnalyzeNodeIn(_, _, _, _, _)
AnalyzeNode(node, depth, loop_depth, proc_name) ==
    IF depth > 15 THEN << >>
    ELSE IF IsList(node) THEN AnalyzeNodeIn(node.items, depth, loop_depth, proc_name, 0)
    ELSE IF IsDict(node)
    THEN IF IsLoop(node)
         THEN <<WorkEvent("loop", loop_depth + 1, << >>)>>
              \o AnalyzeNode(node.body, depth + 1, loop_depth + 1, proc_name)
         ELSE IF node.type = "assign" /\ loop_depth = 0
         THEN <<WorkEvent("assign", 0, << >>)>>
              \o AnalyzeNodeIn(Children(node), depth, loop_depth, proc_name, 1)
         ELSE IF node.type = "call"
         THEN IF node.name = proc_name THEN << >>
              ELSE <<WorkEvent("called", 0, node.name)>>
                   \o AnalyzeNodeIn(Children(node), depth, loop_depth, proc_name, 1)
         ELSE AnalyzeNodeIn(Children(node), depth, loop_depth, proc_name, 1)
    ELSE << >>
AnalyzeNodeIn(seq, depth, loop_depth, proc_name, step) ==
    IF Len(seq) = 0 THEN << >>
    ELSE AnalyzeNode(Head(seq), depth + step, loop_depth, proc_name)
         \o AnalyzeNodeIn(Tail(seq), depth, loop_depth, proc_name, step)

RECURSIVE MaxNestedDepth(_)
MaxNestedDepth(events) ==
    IF Len(events) = 0 THEN 0
    ELSE SeqMax(IF Head(events).kind = "loop" THEN Head(events).d ELSE 0,
                MaxNestedDepth(Tail(events)))

\* max_called_complexity, updated call by call
RECURSIVE MaxCalledComplexity(_, _, _)
MaxCalledComplexity(events, prog, cur) ==
    IF Len(events) = 0 THEN cur
    ELSE IF Head(events).kind = "called"
    THEN LET called == GetProcedureComplexity(Head(events).name, prog) IN
         MaxCalledComplexity(Tail(events), prog,
                             IF ComplexityGreaterThan(called, cur) THEN called ELSE cur)
    ELSE MaxCalledComplexity(Tail(events), prog, cur)

\* _analyze_non_recursive_work_v2
AnalyzeNonRecursiveWorkV2(body, proc_name, prog) ==
    LET events == AnalyzeNode(body, 0, 0, proc_name)
        max_nested_depth == MaxNestedDepth(events)
        max_called_complexity == MaxCalledComplexity(events, prog, <<"1">>)
        simple_operations == Cardinality({i \in 1..Len(events) : events[i].kind = "assign"})
    IN  IF max_nested_depth > 0 THEN PolyLabel(max_nested_depth)
        ELSE IF max_called_complexity # <<"1">> THEN max_called_complexity
        ELSE IF simple_operations <= 20 THEN <<"1">> ELSE <<"n">>

\* infer_from_ast: << >> is None, << relation >> the relation
InferFromAst(proc_name, prog, rec_info_map) ==
    IF proc_name \notin DOMAIN rec_info_map \/ ~rec_info_map[proc_name].is_recursive
    THEN << >>
    ELSE LET body == ProcAst(prog, proc_name).body
             num_active_calls == CountActiveRecursiveCalls(body, proc_name)
             red == AnalyzeReductionFromCalls(FindRecursiveCalls(body))
             work_complexity == AnalyzeNonRecursiveWorkV2(body, proc_name, prog)
         IN  <<RecurrenceRelation(num_active_calls, red.b, work_complexity, red.reduction_type)>>

\* ------------------------------------------------------------------------
\* Complexity values: Python numbers and sympy expressions in n
\* ------------------------------------------------------------------------
\* A value is a finite sum of terms  (num/den) * (1/log 2)^l2 * n^(p/100) *
\* log(n)^q * log(log(n))^r * e^n, kept expanded with like terms merged
\* (what sympy's sum and product return on these operands).  py tells a
\* Python int/float from a sympy object: isinstance(c, (int, float)) is
\* true of the former only.
RECURSIVE Gcd(_, _)
Gcd(a, b) == IF b = 0 THEN a ELSE Gcd(b, a % b)

Abs(x) == IF x < 0 THEN 0 - x ELSE x

Term(num, den, p, q, r, e, l2) ==
    LET g == Gcd(Abs(num), den) IN
    [num |-> num \div g, den |-> den \div g, p |-> p, q |-> q, r |-> r, e |-> e, l2 |-> l2]

TermKey(t) == <<t.p, t.q, t.r, t.e, t.l2>>

Value(py, terms) == [py |-> py, terms |-> terms]

\* the Python number num/den
PyNum(num, den) == Value(TRUE, IF num = 0 THEN {} ELSE {Term(num, den, 0, 0, 0, 1, 0)})

\* the sympy number num/den
SymNum(num, den) == Value(FALSE, IF num = 0 THEN {} ELSE {Term(num, den, 0, 0, 0, 1, 0)})

\* self.n, n ** (p/100), log(n), log(n, 2), log(log(n)), base ** n
SymN == Value(FALSE, {Term(1, 1, 100, 0, 0, 1, 0)})

SymPow(p) == Value(FALSE, {Term(1, 1, p, 0, 0, 1, 0)})

SymLog == Value(FALSE, {Term(1, 1, 0, 1, 0, 1, 0)})

SymLog2 == Value(FALSE, {Term(1, 1, 0, 1, 0, 1, 1)})

SymLogLog == Value(FALSE, {Term(1, 1, 0, 0, 1, 1, 0)})

\* base ** n for a positive integer symbol n: 0 ** n is 0 and 1 ** n is 1
SymExp(base) ==
    IF base = 0 THEN SymNum(0, 1)
    ELSE Value(FALSE, {Term(1, 1, 0, 0, 0, base, 0)})

IsNumber(x) == \A t \in x.terms : TermKey(t) = <<0, 0, 0, 1, 0>>

\* the coefficient of the term of x with key k, as <<num, den>>
Coeff(x, k) ==
    IF \E t \in x.terms : TermKey(t) = k
    THEN LET t == CHOOSE t \in x.terms : TermKey(t) = k IN <<t.num, t.den>>
    ELSE <<0, 1>>

Keys(x) == {TermKey(t) : t \in x.terms}

\* x + y
Add(x, y) ==
    LET sums == {LET a == Coeff(x, k)
                     b == Coeff(y, k)
                 IN  [k |-> k, num |-> a[1] * b[2] + b[1] * a[2], den |-> a[2] * b[2]] :
                 k \in Keys(x) \cup Keys(y)}
    IN  Value(x.py /\ y.py,
              {Term(s.num, s.den, s.k[1], s.k[2], s.k[3], s.k[4], s.k[5]) :
                 s \in {s \in sums : s.num # 0}})

TermMul(a, b) ==
    Term(a.num * b.num, a.den * b.den, a.p + b.p, a.q + b.q, a.r + b.r, a.e * b.e, a.l2 + b.l2)

RECURSIVE AddAll(_, _)
AddAll(vals, py) ==
    IF vals = {} THEN Value(py, {})
    ELSE LET v == CHOOSE v \in vals : TRUE IN Add(v, AddAll(vals \ {v}, py))

\* x * y, expanded
Mul(x, y) ==
    LET py == x.py /\ y.py IN
    AddAll({Value(py, {TermMul(a, b)}) : <<a, b>> \in x.terms \X y.terms}, py)

\* x / 2
Half(x) == Mul(x, Value(x.py, {Term(1, 2, 0, 0, 0, 1, 0)}))

\* a Python number compared with 1: c <= 1
NumLeqOne(x) ==
    \A t \in x.terms : t.num <= t.den

\* growth of a term: exponential base first, then the power of n, of log n
\* and of log log n
GrowthKey(t) == <<t.e, t.p, t.q, t.r>>

GrowthLess(a, b) ==
    \/ a[1] < b[1]
    \/ a[1] = b[1] /\ a[2] < b[2]
    \/ a[1] = b[1] /\ a[2] = b[2] /\ a[3] < b[3]
    \/ a[1] = b[1] /\ a[2] = b[2] /\ a[3] = b[3] /\ a[4] < b[4]

\* the fastest-growing term of a non-zero value
Leading(x) ==
    CHOOSE t \in x.terms : \A u \in x.terms : ~GrowthLess(GrowthKey(t), GrowthKey(u))

\* 1/log(2) as the fraction 14427/10000
RECURSIVE IPow(_, _)
IPow(b, k) == IF k = 0 THEN 1 ELSE b * IPow(b, k - 1)

\* sign of a - b for two terms of equal growth
CoeffLess(a, b) ==
    a.num * b.den * IPow(14427, a.l2) * IPow(10000, b.l2)
      < b.num * a.den * IPow(14427, b.l2) * IPow(10000, a.l2)

\* x < y for all large n
RECURSIVE EventuallyLess(_, _)
EventuallyLess(x, y) ==
    IF y.terms = {} THEN x.terms # {} /\ Leading(x).num < 0
    ELSE IF x.terms = {} THEN Leading(y).num > 0
    ELSE LET a == Leading(x)
             b == Leading(y)
         IN  IF GrowthLess(GrowthKey(a), GrowthKey(b)) THEN b.num > 0
             ELSE IF GrowthLess(GrowthKey(b), GrowthKey(a)) THEN a.num < 0
             ELSE IF CoeffLess(a, b) THEN TRUE
             ELSE IF CoeffLess(b, a) THEN FALSE
             ELSE EventuallyLess(Value(x.py, x.terms \ {a}), Value(y.py, y.terms \ {b}))

\* sp.Max / sp.Min: a sympy object, the larger / smaller operand for large n
SymMax(x, y) == Value(FALSE, IF EventuallyLess(x, y) THEN y.terms ELSE x.terms)

SymMin(x, y) == Value(FALSE, IF EventuallyLess(y, x) THEN y.terms ELSE x.terms)

\* ------------------------------------------------------------------------
\* CaseAnalyzer (analyzer/case_analyzer.py)
\* ------------------------------------------------------------------------
CaseResult(worst, best, average, differs) ==
    [worst |-> worst, best |-> best, average |-> average, differs |-> differs]

\* an iteration count that leaves out the last value of the range
CalculateMaxIterationsExclusive(start, end) ==
    IF end.type = "length" THEN SymN
    ELSE IF end.type = "var" THEN SymN
    ELSE IF start.type = "number" /\ end.type = "number"
    THEN PyNum(end.value - start.value, 1)
    ELSE SymN

\* _calculate_max_iterations
CalculateMaxIterations(start, end) ==
    IF end.type = "length" THEN SymN
    ELSE IF end.type = "var" THEN SymN
    ELSE IF start.type = "number" /\ end.type = "number"
    THEN PyNum(end.value - start.value + 1, 1)
    ELSE SymN

FlagNames == {<<"e","n","c","o","n","t","r","a","d","o">>, <<"f","o","u","n","d">>, <<"d","o","n","e">>, <<"f","l","a","g">>, <<"t","e","r","m","i","n","a","r">>}

RECURSIVE HasFlagAssignment(_)
HasFlagAssignment(node) ==
    /\ IsDict(node)
    /\ \/ /\ node.type = "assign"
          /\ \/ node.expr.type = "boolean"
             \/ node.expr.type = "var" /\ node.expr.value \in {<<"T">>, <<"F">>}
             \/ /\ node.target.type = "var"
                /\ \E flag \in FlagNames : Contains(Lower(node.target.value), flag)
       \/ /\ node.type = "block"
          /\ \E i \in 1..Len(node.body.items) : HasFlagAssignment(node.body.items[i])

CounterNames == {<<"i">>, <<"j">>, <<"k">>, <<"i","d","x">>, <<"p","o","s">>}

RECURSIVE HasCounterModification(_)
HasCounterModification(node) ==
    /\ IsDict(node)
    /\ \/ /\ node.type = "assign"
          /\ node.target.type = "var"
          /\ node.target.value \in CounterNames
       \/ /\ node.type = "block"
          /\ \E i \in 1..Len(node.body.items) : HasCounterModification(node.body.items[i])

RECURSIVE SearchEarlyExitPattern(_, _)
SearchEarlyExitPattern(node, depth) ==
    IF depth > 10 THEN FALSE
    ELSE IF IsDict(node)
    THEN \/ /\ node.type = "if"
            /\ HasFlagAssignment(node.then) \/ HasCounterModification(node.then)
         \/ \E i \in 1..Len(Children(node)) :
               SearchEarlyExitPattern(Children(node)[i], depth + 1)
    ELSE IF IsList(node)
    THEN \E i \in 1..Len(node.items) : SearchEarlyExitPattern(node.items[i], depth + 1)
    ELSE FALSE

\* _has_early_exit
HasEarlyExit(body_node) == IsDict(body_node) /\ SearchEarlyExitPattern(body_node, 0)

\* _is_search_pattern
IsSearchPattern(condition, body) ==
    /\ IsDict(body)
    /\ body.type = "block"
    /\ \E i \in 1..Len(body.body.items) : body.body.items[i].type = "if"

AnalyzeForCases(for_node) ==
    LET max_iterations == CalculateMaxIterations(for_node.start, for_node.end) IN
    IF HasEarlyExit(for_node.body)
    THEN CaseResult(max_iterations, PyNum(1, 1), Half(max_iterations), TRUE)
    ELSE CaseResult(max_iterations, max_iterations, max_iterations, FALSE)

AnalyzeWhileCases(while_node) ==
    IF IsSearchPattern(while_node.cond, while_node.body)
    THEN CaseResult(SymN, PyNum(1, 1), Half(SymN), TRUE)
    ELSE CaseResult(SymN, SymN, SymN, FALSE)

AnalyzeRepeatCases(repeat_node) == CaseResult(SymN, PyNum(1, 1), Half(SymN), TRUE)

\* analyze_loop_cases
AnalyzeLoopCases(loop_node) ==
    IF loop_node.type = "for" THEN AnalyzeForCases(loop_node)
    ELSE IF loop_node.type = "while" THEN AnalyzeWhileCases(loop_node)
    ELSE IF loop_node.type = "repeat" THEN AnalyzeRepeatCases(loop_node)
    ELSE CaseResult(SymN, SymN, SymN, FALSE)

\* ------------------------------------------------------------------------
\* ComplexityAnalyzer (analyzer/complexity.py)
\* ------------------------------------------------------------------------
\* A case triple with the steps the analysis appended while deriving it;
\* raised: an exception left the analysis.
Triple(worst, best, average, steps) ==
    [worst |-> worst, best |-> best, average |-> average, steps |-> steps, raised |-> FALSE]

Ones == Triple(PyNum(1, 1), PyNum(1, 1), PyNum(1, 1), << >>)

TripleRaised ==
    [worst |-> PyNum(1, 1), best |-> PyNum(1, 1), average |-> PyNum(1, 1),
     steps |-> << >>, raised |-> TRUE]

RECURSIVE SumSeq(_, _)
SumSeq(seq, py) == IF Len(seq) = 0 THEN Value(py, {}) ELSE Add(Head(seq), SumSeq(Tail(seq), py))

\* _get_dominant_complexity
GetDominantComplexity(complexities) ==
    LET non_constants == SelectSeq(complexities, LAMBDA c : ~(c.py /\ NumLeqOne(c))) IN
    IF Len(non_constants) = 0 THEN SumSeq(complexities, TRUE)
    ELSE Value(FALSE, SumSeq(non_constants, TRUE).terms)

\* _calculate_iterations
CalculateIterations(start, end) ==
    IF end.type = "length" THEN SymN
    ELSE IF start.type = "number" /\ end.type = "number"
    THEN PyNum(end.value - start.value + 1, 1)
    ELSE SymN

\* the term of a sum that as_ordered_terms() lists last
LastOrderedTerm(x) ==
    CHOOSE t \in x.terms : \A u \in x.terms : ~GrowthLess(GrowthKey(u), GrowthKey(t))

\* _simplify_complexity
SimplifyComplexity(expr) ==
    IF expr.py THEN (IF NumLeqOne(expr) THEN PyNum(1, 1) ELSE expr)
    ELSE IF IsNumber(expr) THEN expr
    ELSE LET t == IF Cardinality(expr.terms) = 1 THEN CHOOSE t \in expr.terms : TRUE
                  ELSE LastOrderedTerm(expr)
         IN  IF TermKey(t) = <<0, 0, 0, 1, 0>> THEN Value(FALSE, {t})
             ELSE Value(FALSE, {Term(1, 1, t.p, t.q, t.r, t.e, 0)})

\* _extract_control_var: << >> is None
ExtractControlVar(condition) ==
    IF IsDict(condition) /\ condition.type = "binop"
    THEN IF condition.left.type = "var" THEN <<condition.left.value>>
         ELSE IF condition.right.type = "var" THEN <<condition.right.value>>
         ELSE << >>
    ELSE << >>

OpMap(op_token) ==
    CASE op_token = "PLUS" -> "+"
      [] op_token = "MINUS" -> "-"
      [] op_token \in {"MULT", "TIMES", "STAR"} -> "*"
      [] op_token = "DIV" -> "/"
      [] op_token = "MOD" -> "%"
      [] OTHER -> op_token

\* str(other_val.get("value", "k"))
ValueStr(node) ==
    IF node.type = "number" THEN IntStr(node.value)
    ELSE IF node.type = "var" THEN node.value
    ELSE IF node.type = "boolean" THEN (IF node.value THEN <<"T","r","u","e">> ELSE <<"F","a","l","s","e">>)
    ELSE <<"k">>

\* a modification: found FALSE is None
Modification(found, op, value, raised) ==
    [found |-> found, op |-> op, value |-> value, raised |-> raised]

NoModification == Modification(FALSE, "", << >>, FALSE)

\* _analyze_assignment_math
AnalyzeAssignmentMath(expr, var_name) ==
    IF expr.type \in {"binop", "binary"}
    THEN LET is_left_var == expr.left.type = "var" /\ expr.left.value = var_name
             is_right_var == expr.right.type = "var" /\ expr.right.value = var_name
             other_val == IF is_left_var THEN expr.right ELSE expr.left
         IN  IF is_left_var \/ is_right_var
             THEN Modification(TRUE, OpMap(expr.op), ValueStr(other_val), FALSE)
             ELSE NoModification
    ELSE NoModification

\* _find_variable_modification: the first statement that assigns var_name,
\* or that calls inc on it, decides
RECURSIVE FindVariableModificationIn(_, _)
FindVariableModificationIn(stmts, var_name) ==
    IF Len(stmts) = 0 THEN NoModification
    ELSE LET stmt == Head(stmts) IN
         IF ~IsDict(stmt) THEN Modification(FALSE, "", << >>, TRUE)
         ELSE IF /\ stmt.type = "assign"
                 /\ stmt.target.type = "var"
                 /\ stmt.target.value = var_name
         THEN AnalyzeAssignmentMath(stmt.expr, var_name)
         ELSE IF stmt.type = "call" /\ stmt.name = <<"i","n","c">>
         THEN IF \/ Len(stmt.args.items) = 0
                 \/ stmt.args.items[1].type \notin {"number", "var", "boolean"}
              THEN Modification(FALSE, "", << >>, TRUE)
              ELSE IF /\ stmt.args.items[1].type = "var"
                      /\ stmt.args.items[1].value = var_name
              THEN Modification(TRUE, "+", <<"1">>, FALSE)
              ELSE FindVariableModificationIn(Tail(stmts), var_name)
         ELSE FindVariableModificationIn(Tail(stmts), var_name)

FindVariableModification(body, var_name) ==
    FindVariableModificationIn(
        IF IsDict(body) /\ body.type = "block" THEN body.body.items
        ELSE IF IsList(body) THEN body.items
        ELSE <<body>>,
        var_name)

\* _infer_loop_complexity: the iterations
InferLoopComplexity(condition, body) ==
    LET control_var == ExtractControlVar(condition) IN
    IF control_var = << >> THEN [iterations |-> SymN, raised |-> FALSE]
    ELSE LET modification == FindVariableModification(body, control_var[1]) IN
         IF modification.raised THEN [iterations |-> SymN, raised |-> TRUE]
         ELSE IF ~modification.found THEN [iterations |-> SymN, raised |-> FALSE]
         ELSE [iterations |->
                 IF modification.op \in {"+", "-"} THEN SymN
                 ELSE IF modification.op = "*"
                 THEN (IF modification.value = <<"2">> THEN SymLog2 ELSE SymLog)
                 ELSE IF modification.op = "/" THEN SymLog
                 ELSE IF modification.op \in {"^", "**"} THEN SymLogLog
                 ELSE SymN,
               raised |-> FALSE]

\* _parse_complexity_string: the value and whether the except branch ran.
\* Caso 7 is never reached (Caso 6 returns for every text holding "^n").
\* Caso 8 hands the text to eval: a decimal literal evaluates to itself;
\* the other texts a solver label can leave here, "log(n" and "?", are not
\* expressions and raise SyntaxError.
Parsed(value, failed) == [value |-> value, failed |-> failed]

\* Caso 8
ParseEval(s) ==
    IF IsDigits(s) THEN Parsed(PyNum(DigitsVal(s), 1), FALSE) ELSE Parsed(SymN, TRUE)

\* int(base) of Caso 6
ParseBase(s, base_num) ==
    IF base_num # << >> /\ base_num[1] >= 0 THEN Parsed(SymExp(base_num[1]), FALSE)
    ELSE IF base_num # << >> THEN Parsed(SymN, TRUE)
    ELSE Parsed(SymExp(2), FALSE)

\* Caso 6
ParseExponential(s) ==
    IF Contains(s, <<"^","n">>) THEN ParseBase(s, ParseInt(Split(s, "^")[1])) ELSE ParseEval(s)

\* float(exp_str) of Caso 5
ParseExponent(s, exp) ==
    IF exp # << >> THEN Parsed(SymPow(exp[1]), FALSE) ELSE ParseExponential(s)

\* Caso 5
ParsePolynomial(s) ==
    IF Contains(s, <<"^">>) /\ ~Contains(s, <<"l","o","g">>) /\ StartsWith(s, <<"n","^">>)
    THEN ParseExponent(s, ParseFloat(Replace(s, <<"n","^">>, << >>)))
    ELSE ParseExponential(s)

\* int(...) of Caso 4
ParsePolyLogExponent(exp) ==
    IF exp # << >> /\ exp[1] >= 0
    THEN Parsed(Mul(SymPow(100 * exp[1]), SymLog), FALSE)
    ELSE Parsed(SymN, TRUE)

\* Caso 4
ParsePolyLog(s) ==
    IF Contains(s, <<"l","o","g">>) /\ Contains(s, <<"*">>) /\ StartsWith(s, <<"n">>)
    THEN IF Contains(Split(s, "*")[1], <<"^">>)
         THEN ParsePolyLogExponent(ParseInt(Split(Split(s, "^")[2], "*")[1]))
         ELSE Parsed(Mul(SymN, SymLog), FALSE)
    ELSE ParsePolynomial(s)

\* Casos 1 to 3 on the stripped, lowered text
ParseLowered(s) ==
    IF s = <<"1">> THEN Parsed(PyNum(1, 1), FALSE)
    ELSE IF s = <<"n">> THEN Parsed(SymN, FALSE)
    ELSE IF s \in {<<"l","o","g","(","n",")">>, <<"l","o","g"," ","n">>, <<"l","o","g","n">>} THEN Parsed(SymLog, FALSE)
    ELSE ParsePolyLog(s)

ParseComplexityString(str) == ParseLowered(Lower(Strip(str)))

\* what _analyze_call parses: the label without every "O(" and every ")"
StripLabel(complexity_str) ==
    Strip(Replace(Replace(complexity_str, <<"O","(">>, << >>), <<")">>, << >>))

\* the analyzer's fields the statement analysis reads
Context(prog, recursion_info, recurrence_solutions) ==
    [prog |-> prog, recursion_info |-> recursion_info,
     recurrence_solutions |-> recurrence_solutions]

RECURSIVE Flatten(_)
Flatten(seqs) == IF Len(seqs) = 0 THEN << >> ELSE Head(seqs) \o Flatten(Tail(seqs))

RECURSIVE AnalyzeStatement(_, _, _)
RECURSIVE AnalyzeStatements(_, _, _)
RECURSIVE AnalyzeExpressionComplexity(_, _, _)
RECURSIVE AnalyzeCall(_, _, _)

\* the dominant triple of a statement list and the steps recorded
CombineStatements(rs) ==
    IF \E i \in 1..Len(rs) : rs[i].raised THEN TripleRaised
    ELSE Triple(GetDominantComplexity([i \in 1..Len(rs) |-> rs[i].worst]),
                GetDominantComplexity([i \in 1..Len(rs) |-> rs[i].best]),
                GetDominantComplexity([i \in 1..Len(rs) |-> rs[i].average]),
                Flatten([i \in 1..Len(rs) |-> rs[i].steps]))

\* _analyze_statements; fuel is the interpreter's remaining recursion depth
AnalyzeStatements(statements, ctx, fuel) ==
    IF Len(statements) = 0 THEN Ones
    ELSE CombineStatements(
             [i \in 1..Len(statements) |-> AnalyzeStatement(statements[i], ctx, fuel)])

\* a product of a loop's counts with the triple of its body
ScaleTriple(worst, best, average, body_complexity, step) ==
    IF body_complexity.raised THEN TripleRaised
    ELSE Triple(Mul(worst, body_complexity.worst),
                Mul(best, body_complexity.best),
                Mul(average, body_complexity.average),
                Append(body_complexity.steps, step))

\* a sum of a loop's count with the triple of its body
ShiftTriple(iterations, body_complexity, step) ==
    IF body_complexity.raised THEN TripleRaised
    ELSE Triple(Add(iterations, body_complexity.worst),
                Add(iterations, body_complexity.best),
                Add(iterations, body_complexity.average),
                Append(body_complexity.steps, step))

\* a for analysis that adds the cost of the body to the iterations
AnalyzeForAdding(stmt, ctx, fuel) ==
    ShiftTriple(CalculateIterations(stmt.start, stmt.end),
                AnalyzeStatement(stmt.body, ctx, fuel), "FOR")

\* the two branches of _analyze_for: with and without early exit
ForTriple(case_analysis, iterations, body_complexity) ==
    IF case_analysis.differs
    THEN ScaleTriple(case_analysis.worst, case_analysis.best, case_analysis.average,
                     body_complexity, "FOR con EARLY EXIT")
    ELSE ScaleTriple(iterations, iterations, iterations, body_complexity, "FOR")

AnalyzeFor(stmt, ctx, fuel) ==
    ForTriple(AnalyzeLoopCases(stmt), CalculateIterations(stmt.start, stmt.end),
              AnalyzeStatement(stmt.body, ctx, fuel))

WhileTriple(iter_info, body_complexity) ==
    IF body_complexity.raised \/ iter_info.raised THEN TripleRaised
    ELSE Triple(Mul(iter_info.iterations, body_complexity.worst),
                PyNum(1, 1),
                Mul(iter_info.iterations, body_complexity.average),
                Append(body_complexity.steps, "WHILE"))

AnalyzeWhile(stmt, ctx, fuel) ==
    WhileTriple(InferLoopComplexity(stmt.cond, stmt.body),
                AnalyzeStatement(stmt.body, ctx, fuel))

RepeatTriple(iter_info, body_complexity) ==
    IF body_complexity.raised \/ iter_info.raised THEN TripleRaised
    ELSE Triple(Mul(iter_info.iterations, body_complexity.worst),
                body_complexity.best,
                Mul(iter_info.iterations, body_complexity.average),
                Append(body_complexity.steps, "REPEAT-UNTIL"))

AnalyzeRepeat(stmt, ctx, fuel) ==
    RepeatTriple(InferLoopComplexity(stmt.cond, stmt.body),
                 AnalyzeStatements(stmt.body.items, ctx, fuel))

IfTriple(then_complexity, else_complexity) ==
    IF then_complexity.raised \/ else_complexity.raised THEN TripleRaised
    ELSE Triple(SymMax(then_complexity.worst, else_complexity.worst),
                SymMin(then_complexity.best, else_complexity.best),
                Half(Add(then_complexity.average, else_complexity.average)),
                Append(then_complexity.steps \o else_complexity.steps, "IF-THEN-ELSE"))

\* _analyze_if: stmt["else"] is None for an if without else, and
\* _analyze_statement(None) raises AttributeError
AnalyzeIf(stmt, ctx, fuel) ==
    IfTriple(AnalyzeStatement(stmt.then, ctx, fuel), AnalyzeStatement(stmt.else, ctx, fuel))

\* a call to a procedure with a solved recurrence
SolvedCallTriple(parsed) ==
    Triple(parsed.value, parsed.value, parsed.value,
           (IF parsed.failed THEN <<"No se pudo parsear">> ELSE << >>)
           \o <<"CALL RECURSIVO - Solucion exacta">>)

\* a call to a recursive procedure without a solution
UnsolvedCallTriple(depth_pattern) ==
    IF depth_pattern = "tree"
    THEN Triple(Mul(SymN, SymLog), Mul(SymN, SymLog), Mul(SymN, SymLog),
                <<"CALL RECURSIVO - Sin resolver">>)
    ELSE Triple(SymN, SymN, SymN, <<"CALL RECURSIVO - Sin resolver">>)

\* a call to an iterative procedure: the triple of its body
IterativeCallTriple(body_complexity) ==
    IF body_complexity.raised THEN TripleRaised
    ELSE Triple(body_complexity.worst, body_complexity.best, body_complexity.average,
                Append(body_complexity.steps, "CALL ITERATIVO"))

AnalyzeCall(stmt, ctx, fuel) ==
    IF stmt.name \in DOMAIN ctx.recurrence_solutions
    THEN SolvedCallTriple(ParseComplexityString(
             StripLabel(ctx.recurrence_solutions[stmt.name].solution)))
    ELSE IF /\ stmt.name \in DOMAIN ctx.recursion_info
            /\ ctx.recursion_info[stmt.name].is_recursive
    THEN UnsolvedCallTriple(ctx.recursion_info[stmt.name].depth_pattern)
    ELSE IF stmt.name \in ProcNames(ctx.prog)
    THEN IF fuel = 0 THEN TripleRaised
         ELSE IterativeCallTriple(
                  AnalyzeStatement(ProcAst(ctx.prog, stmt.name).body, ctx, fuel - 1))
    ELSE Triple(PyNum(1, 1), PyNum(1, 1), PyNum(1, 1), <<"CALL DESCONOCIDO">>)

BinopTriple(left, right) ==
    IF left.raised \/ right.raised THEN TripleRaised
    ELSE Triple(SymMax(left.worst, right.worst),
                SymMax(left.best, right.best),
                SymMax(left.average, right.average),
                left.steps \o right.steps)

AnalyzeExpressionComplexity(expr, ctx, fuel) ==
    IF ~IsDict(expr) THEN Ones
    ELSE IF expr.type \in {"call", "call_expr"} THEN AnalyzeCall(expr, ctx, fuel)
    ELSE IF expr.type = "binop"
    THEN BinopTriple(AnalyzeExpressionComplexity(expr.left, ctx, fuel),
                     AnalyzeExpressionComplexity(expr.right, ctx, fuel))
    ELSE IF expr.type = "unop" THEN AnalyzeExpressionComplexity(expr.operand, ctx, fuel)
    ELSE IF expr.type = "index" THEN AnalyzeExpressionComplexity(expr.index, ctx, fuel)
    ELSE Ones

\* _analyze_statement
AnalyzeStatement(stmt, ctx, fuel) ==
    IF ~IsDict(stmt) THEN TripleRaised
    ELSE IF stmt.type = "block" THEN AnalyzeStatements(stmt.body.items, ctx, fuel)
    ELSE IF stmt.type = "for" THEN AnalyzeFor(stmt, ctx, fuel)
    ELSE IF stmt.type = "while" THEN AnalyzeWhile(stmt, ctx, fuel)
    ELSE IF stmt.type = "repeat" THEN AnalyzeRepeat(stmt, ctx, fuel)
    ELSE IF stmt.type = "if" THEN AnalyzeIf(stmt, ctx, fuel)
    ELSE IF stmt.type \in {"call", "call_expr"} THEN AnalyzeCall(stmt, ctx, fuel)
    ELSE IF stmt.type = "return"
    THEN IF IsDict(stmt.expr) THEN AnalyzeExpressionComplexity(stmt.expr, ctx, fuel) ELSE Ones
    ELSE IF stmt.type = "assign" THEN AnalyzeExpressionComplexity(stmt.expr, ctx, fuel)
    ELSE Ones

\* _build_recurrence_from_recinfo: << >> is None
BuildRecurrenceFromRecinfo(rec_info) ==
    LET a == SeqMax(1, rec_info.call_count)
        sub == rec_info.subproblem
        f_complexity == IF rec_info.has_combining_work THEN <<"n">> ELSE <<"1">>
    IN  IF sub = <<"n","/","2">> THEN <<RecurrenceRelation(a, 2, f_complexity, "divide")>>
        ELSE IF StartsWith(sub, <<"n","/">>)
        THEN LET k == ParseInt(Split(sub, "/")[2]) IN
             <<RecurrenceRelation(a, IF k # << >> THEN k[1] ELSE 2, f_complexity, "divide")>>
        ELSE IF sub = <<"n","-","1">> THEN <<RecurrenceRelation(a, 1, f_complexity, "subtract")>>
        ELSE IF sub = <<"s","l","i","c","e">> THEN <<RecurrenceRelation(a, 2, f_complexity, "divide")>>
        ELSE << >>

\* _get_recursive_complexity: the second definition in the class body
\* replaces the first (the labels are written here without their accents)
GetRecursiveComplexity(rec_info) ==
    IF rec_info.depth_pattern = "linear" THEN <<"O","(","n",")"," ","-"," ","R","e","c","u","r","s","i","o","n"," ","l","i","n","e","a","l">>
    ELSE IF rec_info.depth_pattern = "tree" THEN <<"O","(","2","^","n",")"," ","-"," ","A","r","b","o","l"," ","d","e"," ","r","e","c","u","r","s","i","o","n">>
    ELSE <<"O","(","?",")"," ","-"," ","P","a","t","r","o","n"," ","d","e","s","c","o","n","o","c","i","d","o">>

\* one entry of per_procedure_analysis; relation << >> is None
ProcedureAnalysis(rec_info, relation, solution) ==
    [recursion_info |-> rec_info, relation |-> relation, solution |-> solution,
     complexity |-> solution.complexity, method |-> solution.method]

\* Intento 1 and Intento 2 of _analyze_recursion: the inferred relation,
\* else the one built from the recursion info
RelationFor(inferred, rec_info) ==
    IF inferred # << >> THEN inferred ELSE BuildRecurrenceFromRecinfo(rec_info)

\* the entry stored for a relation, or the heuristic fallback without one
SolveAndStore(rec_info, relation) ==
    IF relation # << >>
    THEN ProcedureAnalysis(rec_info, relation, Solve(relation[1]))
    ELSE [ProcedureAnalysis(rec_info, << >>,
                            RecurrenceSolution(<< >>, GetRecursiveComplexity(rec_info),
                                               "Estimacion heuristica"))
            EXCEPT !.method = "Heuristica"]

\* what the loop body of _analyze_recursion stores for one recursive procedure
AnalyzeRecursionOf(proc_name, prog, recursion_info) ==
    SolveAndStore(recursion_info[proc_name],
                  RelationFor(IF proc_name \in ProcNames(prog)
                              THEN InferFromAst(proc_name, prog, recursion_info)
                              ELSE << >>,
                              recursion_info[proc_name]))

\* _analyze_recursion: per_procedure_analysis
AnalyzeRecursion(prog, recursion_info) ==
    [p \in {p \in DOMAIN recursion_info : recursion_info[p].is_recursive} |->
       AnalyzeRecursionOf(p, prog, recursion_info)]

\* recurrence_solutions: the entries with a relation
RecurrenceSolutions(per_procedure_analysis) ==
    [p \in {p \in DOMAIN per_procedure_analysis : per_procedure_analysis[p].relation # << >>} |->
       [relation |-> RelationStr(per_procedure_analysis[p].relation[1]),
        solution |-> per_procedure_analysis[p].solution.complexity,
        method |-> per_procedure_analysis[p].solution.method]]

\* the interpreter's recursion limit, as seen by _analyze_call
RecursionLimit == 3

Complexity(big_o, omega, theta, steps, recurrence_info, per_procedure_analysis) ==
    [big_o |-> big_o, omega |-> omega, theta |-> theta, steps |-> steps,
     recurrence_info |-> recurrence_info,
     per_procedure_analysis |-> per_procedure_analysis, raised |-> FALSE]

AnalysisRaised ==
    [big_o |-> PyNum(1, 1), omega |-> PyNum(1, 1), theta |-> PyNum(1, 1), steps |-> << >>,
     recurrence_info |-> << >>, per_procedure_analysis |-> << >>, raised |-> TRUE]

\* the Complexity analyze returns for the triple of the main body
SimplifiedResult(body_complexity, recurrence_solutions, per_procedure_analysis) ==
    IF body_complexity.raised THEN AnalysisRaised
    ELSE Complexity(SimplifyComplexity(body_complexity.worst),
                    SimplifyComplexity(body_complexity.best),
                    SimplifyComplexity(body_complexity.average),
                    <<"INICIO DEL ANALISIS DE COMPLEJIDAD">> \o body_complexity.steps,
                    recurrence_solutions, per_procedure_analysis)

\* analyze after _analyze_recursion: the main body under the solved recurrences
AnalyzeMain(prog, recursion_info, recurrence_solutions, per_procedure_analysis) ==
    SimplifiedResult(
        AnalyzeStatements(prog.body, Context(prog, recursion_info, recurrence_solutions),
                          RecursionLimit),
        recurrence_solutions, per_procedure_analysis)

\* analyze once per_procedure_analysis is filled
AnalyzeWith(prog, recursion_info, per_procedure_analysis) ==
    IF \E p \in DOMAIN per_procedure_analysis : per_procedure_analysis[p].solution.raised
    THEN AnalysisRaised
    ELSE AnalyzeMain(prog, recursion_info, RecurrenceSolutions(per_procedure_analysis),
                     per_procedure_analysis)

\* ComplexityAnalyzer(ast, recursion_info).analyze()
Analyze(prog, recursion_info) ==
    AnalyzeWith(prog, recursion_info, AnalyzeRecursion(prog, recursion_info))

\* ------------------------------------------------------------------------
\* PatternClassifier.classify (analyzer/patterns.py)
\* ------------------------------------------------------------------------
\* confidence is in hundredths
PatternClassification(pattern, complexity, confidence) ==
    [pattern |-> pattern, complexity |-> complexity, confidence |-> confidence]

AnyIn(names, name_lower) == \E x \in names : Contains(name_lower, x)

\* getattr(rel, "a", 0) and getattr(rel, "f_complexity", "") of a relation
\* that may be None
RelA(rel) == IF rel = << >> THEN 0 ELSE rel[1].a

RelF(rel) == IF rel = << >> THEN << >> ELSE rel[1].f_complexity

IsBinarySearch(info, sol, rel) ==
    /\ info.call_count = 1
    /\ info.depth_pattern = "divide_and_conquer"
    /\ info.subproblem = <<"n","/","2">>
    /\ RelA(rel) = 1
    /\ Contains(Lower(sol.complexity), <<"l","o","g">>)
    /\ ~Contains(Replace(Lower(sol.complexity), <<"l","o","g">>, << >>), <<"n">>)

IsMergeSort(info, sol, rel) ==
    /\ info.depth_pattern = "divide_and_conquer"
    /\ info.subproblem = <<"n","/","2">>
    /\ info.call_count >= 2
    /\ Contains(Lower(sol.complexity), <<"n"," ","l","o","g">>)
    /\ RelA(rel) = 2
    /\ Lower(Strip(RelF(rel))) = <<"n">>
    /\ info.has_combining_work

IsQuickSort(info, sol, rel) ==
    /\ info.call_count >= 2
    /\ info.depth_pattern = "divide_and_conquer"
    /\ info.subproblem \in {<<"n","/","2">>, <<"u","n","k","n","o","w","n">>}
    /\ ~info.has_combining_work
    /\ Contains(Lower(sol.complexity), <<"n"," ","l","o","g">>)

\* a Fibonacci rule that accepts the base 2 only
IsFibonacciBaseTwo(info, sol, rel) ==
    /\ info.call_count = 2
    /\ info.subproblem = <<"n","-","1">>
    /\ info.depth_pattern = "tree"
    /\ Contains(sol.complexity, <<"2","^","n">>)

IsFibonacci(info, sol, rel) ==
    /\ info.call_count = 2
    /\ info.subproblem = <<"n","-","1">>
    /\ info.depth_pattern = "tree"
    /\ Contains(sol.complexity, <<"2","^","n">>) \/ Contains(sol.complexity, <<"^","n">>)

IsFactorial(info, sol, rel) ==
    /\ info.call_count = 1
    /\ info.subproblem = <<"n","-","1">>
    /\ info.depth_pattern = "linear"
    /\ Contains(Lower(sol.complexity), <<"n">>)
    /\ ~Contains(Lower(sol.complexity), <<"l","o","g">>)
    /\ ~Contains(sol.complexity, <<"^">>)

IsHanoi(info, sol, rel) ==
    /\ info.call_count = 2
    /\ info.subproblem = <<"n","-","1">>
    /\ info.depth_pattern = "tree"
    /\ Contains(sol.complexity, <<"2","^","n">>)

IsGcd(info, sol, rel) ==
    /\ info.call_count = 1
    /\ info.depth_pattern \in {"linear", "divide_and_conquer"}
    /\ Contains(Lower(sol.complexity), <<"l","o","g">>)
    /\ info.subproblem \in {<<"n","%","m">>, <<"m","o","d">>, <<"u","n","k","n","o","w","n">>}

IsPower(info, sol, rel) ==
    /\ info.call_count = 1
    /\ info.subproblem = <<"n","/","2">>
    /\ Contains(Lower(sol.complexity), <<"l","o","g">>)
    /\ info.depth_pattern = "divide_and_conquer"

IsKaratsuba(info, sol, rel) ==
    /\ info.call_count = 3
    /\ info.subproblem = <<"n","/","2">>
    /\ info.depth_pattern = "divide_and_conquer"

IsBacktracking(info, sol, rel) ==
    /\ info.call_count >= 4
    /\ info.depth_pattern = "tree"
    /\ Contains(sol.complexity, <<"^","n">>)

Classify(func_name, info, sol, rel) ==
    LET name_lower == Lower(func_name)
        Named(names, yes, no) == IF AnyIn(names, name_lower) THEN yes ELSE no
    IN
    IF ~info.is_recursive THEN PatternClassification("UNKNOWN", <<"N","o"," ","r","e","c","u","r","s","i","v","o">>, 100)
    ELSE IF IsBinarySearch(info, sol, rel)
    THEN PatternClassification("BINARY_SEARCH", <<"O","(","l","o","g"," ","n",")">>, 100)
    ELSE IF IsMergeSort(info, sol, rel)
    THEN PatternClassification("MERGE_SORT", <<"O","(","n"," ","l","o","g"," ","n",")">>,
                               Named({<<"m","e","r","g","e">>, <<"o","r","d","e","n","a","r">>, <<"s","o","r","t">>}, 100, 99))
    ELSE IF IsQuickSort(info, sol, rel)
    THEN PatternClassification("QUICK_SORT", <<"O","(","n"," ","l","o","g"," ","n",")"," ","p","r","o","m","e","d","i","o",","," ","O","(","n","^","2",")"," ","p","e","o","r"," ","c","a","s","o">>,
                               Named({<<"q","u","i","c","k">>, <<"r","a","p","i","d","o">>}, 98, 90))
    ELSE IF IsFibonacci(info, sol, rel)
    THEN PatternClassification("FIBONACCI", <<"O","(","2","^","n",")">>, 100)
    ELSE IF IsFactorial(info, sol, rel)
    THEN PatternClassification("FACTORIAL", <<"O","(","n",")">>,
                               Named({<<"f","a","c","t">>, <<"f","a","c","t","o","r","i","a","l">>}, 100, 85))
    ELSE IF IsHanoi(info, sol, rel)
    THEN PatternClassification("TOWER_OF_HANOI", <<"O","(","2","^","n",")">>,
                               Named({<<"h","a","n","o","i">>, <<"t","o","r","r","e">>, <<"t","o","w","e","r">>}, 100, 80))
    ELSE IF IsGcd(info, sol, rel)
    THEN PatternClassification("GCD_EUCLIDEAN", <<"O","(","l","o","g"," ","m","i","n","(","a",",","b",")",")">>,
                               Named({<<"g","c","d">>, <<"m","c","d">>, <<"e","u","c","l","i","d">>}, 95, 70))
    ELSE IF IsPower(info, sol, rel)
    THEN PatternClassification("POWER_RECURSIVE", <<"O","(","l","o","g"," ","n",")">>,
                               Named({<<"p","o","w">>, <<"p","o","w","e","r">>, <<"p","o","t","e","n","c","i","a">>, <<"e","x","p">>}, 95, 75))
    ELSE IF IsKaratsuba(info, sol, rel)
    THEN PatternClassification("KARATSUBA", <<"O","(","n","^","1",".","5","8","5",")">>,
                               Named({<<"k","a","r","a","t","s","u","b","a">>, <<"f","a","s","t","_","m","u","l","t">>}, 95, 80))
    ELSE IF IsBacktracking(info, sol, rel)
    THEN PatternClassification(
             IF Contains(name_lower, <<"q","u","e","e","n">>) \/ Contains(name_lower, <<"r","e","i","n","a">>)
             THEN "N_QUEENS" ELSE "PERMUTATIONS",
             sol.complexity,
             Named({<<"q","u","e","e","n">>, <<"r","e","i","n","a">>, <<"p","e","r","m","u","t">>, <<"b","a","c","k","t","r","a","c","k">>}, 90, 65))
    ELSE PatternClassification("UNKNOWN", sol.complexity, 60)

\* ------------------------------------------------------------------------
\* The programs analysed: ASTs of the shape the parser builds
\* ------------------------------------------------------------------------
\* the argument n - k of a recursive call
NMinus(k) == BinOp("MINUS", Var(<<"n">>), Number(k))

BaseCase(result) == BinOp("LE", Var(<<"n">>), Number(1))

\* if n <= 1 return n else return P(n-1) + P(n-2)   (src/test_fibonacci.py)
FibonacciExprBody(name) ==
    Block(<<If(BaseCase(1), Block(<<Return(Var(<<"n">>))>>),
               Block(<<Return(BinOp("PLUS", CallExpr(name, <<NMinus(1)>>),
                                           CallExpr(name, <<NMinus(2)>>)))>>))>>)

\* the same two recursions as consecutive call statements
FibonacciStmtBody(name) ==
    Block(<<If(BaseCase(1), Block(<<Return(Var(<<"n">>))>>),
               Block(<<Call(name, <<NMinus(1)>>), Call(name, <<NMinus(2)>>)>>))>>)

\* the two recursions followed by a loop over the input
FibonacciLoopBody(name) ==
    Block(<<If(BaseCase(1), Block(<<Return(Var(<<"n">>))>>),
               Block(<<Call(name, <<NMinus(1)>>), Call(name, <<NMinus(2)>>),
                       For(<<"t">>, Number(1), Var(<<"n">>),
                           Block(<<Assign(Var(<<"s">>), Number(0))>>))>>))>>)

\* if n <= 1 return 1 else return n * P(n-1)
FactorialExprBody(name) ==
    Block(<<If(BaseCase(1), Block(<<Return(Number(1))>>),
               Block(<<Return(BinOp("MULT", Var(<<"n">>), CallExpr(name, <<NMinus(1)>>)))>>))>>)

\* the recursion as a call statement
FactorialStmtBody(name) ==
    Block(<<If(BaseCase(1), Block(<<Return(Number(1))>>),
               Block(<<Call(name, <<NMinus(1)>>)>>))>>)

Midpoint(mid) ==
    Assign(Var(mid), BinOp("DIV_INT", BinOp("PLUS", Var(<<"i","n","i","c","i","o">>), Var(<<"f","i","n">>)), Number(2)))

\* the binary search of app/tests/test_api.py: two call sites in opposite
\* branches
BinarySearchBody(name, mid) ==
    Block(<<If(BinOp("GT", Var(<<"i","n","i","c","i","o">>), Var(<<"f","i","n">>)),
               Block(<<Return(Unary(Number(1)))>>), None),
            Midpoint(mid),
            If(BinOp("EQ", ArrayAccess(Var(<<"A">>), Var(mid)), Var(<<"x">>)),
               Block(<<Return(Var(mid))>>),
               Block(<<If(BinOp("GT", ArrayAccess(Var(<<"A">>), Var(mid)), Var(<<"x">>)),
                          Block(<<Call(name, <<Var(<<"A">>), Var(<<"x">>), Var(<<"i","n","i","c","i","o">>),
                                               BinOp("MINUS", Var(mid), Number(1))>>)>>),
                          Block(<<Call(name, <<Var(<<"A">>), Var(<<"x">>),
                                               BinOp("PLUS", Var(mid), Number(1)),
                                               Var(<<"f","i","n">>)>>)>>))>>))>>)

\* a single call site on the lower half
HalvingBody(name, mid) ==
    Block(<<Midpoint(mid),
            If(BinOp("GT", Var(<<"i","n","i","c","i","o">>), Var(<<"f","i","n">>)),
               Block(<<Return(Number(0))>>),
               Block(<<Call(name, <<Var(<<"A">>), Var(<<"i","n","i","c","i","o">>),
                                    BinOp("MINUS", Var(mid), Number(1))>>)>>))>>)

\* the merge loop: while (i <= m and j <= f) { Temp[k] <- A[i]; i <- i + 1 }
MergeLoop ==
    While(BinOp("AND", BinOp("LE", Var(<<"i">>), Var(<<"m">>)), BinOp("LE", Var(<<"j">>), Var(<<"f">>))),
          Block(<<Assign(ArrayAccess(Var(<<"T","e","m","p">>), Var(<<"k">>)), ArrayAccess(Var(<<"A">>), Var(<<"i">>))),
                  Assign(Var(<<"i">>), BinOp("PLUS", Var(<<"i">>), Number(1)))>>))

\* merge sort as in test_mergesort_detection (analyzer/recursion.py)
MergeSortBody(name, mid) ==
    Block(<<Midpoint(mid),
            Call(name, <<Var(<<"A">>), Var(<<"i","n","i","c","i","o">>), Var(mid)>>),
            Call(name, <<Var(<<"A">>), BinOp("PLUS", Var(mid), Number(1)), Var(<<"f","i","n">>)>>),
            MergeLoop>>)

\* two recursions on halves without a merge phase
TwoHalvesBody(name, mid) ==
    Block(<<Midpoint(mid),
            Call(name, <<Var(<<"A">>), Var(<<"i","n","i","c","i","o">>), Var(mid)>>),
            Call(name, <<Var(<<"A">>), BinOp("PLUS", Var(mid), Number(1)), Var(<<"f","i","n">>)>>)>>)

Shapes ==
    {"fibonacci_expr", "fibonacci_stmt", "fibonacci_loop", "factorial_expr", "factorial_stmt",
     "binary_search", "halving", "merge_sort", "two_halves"}

MidNames == {<<"m","e","d","i","o">>, <<"m","i","d">>}

ShapeBody(shape, name, mid) ==
    CASE shape = "fibonacci_expr" -> FibonacciExprBody(name)
      [] shape = "fibonacci_stmt" -> FibonacciStmtBody(name)
      [] shape = "fibonacci_loop" -> FibonacciLoopBody(name)
      [] shape = "factorial_expr" -> FactorialExprBody(name)
      [] shape = "factorial_stmt" -> FactorialStmtBody(name)
      [] shape = "binary_search" -> BinarySearchBody(name, mid)
      [] shape = "halving" -> HalvingBody(name, mid)
      [] shape = "merge_sort" -> MergeSortBody(name, mid)
      [] shape = "two_halves" -> TwoHalvesBody(name, mid)

ProcedureNames == {<<"F","i","b","o","n","a","c","c","i">>, <<"F","a","c","t","o","r","i","a","l">>, <<"B","u","s","q","u","e","d","a","B","i","n","a","r","i","a">>, <<"M","e","r","g","e","S","o","r","t">>, <<"P">>}

\* x <- P(10) inside the main block, as in src/test_fibonacci.py
MainCall(name) == <<Block(<<Assign(Var(<<"x">>), CallExpr(name, <<Number(10)>>))>>)>>

RecursiveProgram(shape, name, mid) ==
    Program(<<ProcedureDecl(name, <<PrimitiveParam(<<"n">>)>>, ShapeBody(shape, name, mid))>>,
            MainCall(name))

MaxDepth == 3

ConstantBody == Block(<<Assign(Var(<<"x">>), BinOp("PLUS", Var(<<"x">>), Number(1)))>>)

LoopVars == <<<<"i">>, <<"j">>, <<"k">>, <<"l">>>>

\* depth nested for loops from 1 to end around a constant-cost body
RECURSIVE NestedFor(_, _)
NestedFor(depth, end) ==
    IF depth = 0 THEN ConstantBody
    ELSE Block(<<For(LoopVars[depth], Number(1), end, NestedFor(depth - 1, end))>>)

LoopEnds == {Var(<<"n">>), Length, Number(5)}

LoopProgram(depth, end) == Program(<< >>, <<NestedFor(depth, end)>>)

Programs ==
    {RecursiveProgram(shape, name, mid) :
        shape \in Shapes, name \in ProcedureNames, mid \in MidNames}
    \cup {LoopProgram(depth, end) : depth \in 1..MaxDepth, end \in LoopEnds}


\* ------------------------------------------------------------------------
\* Programs with several procedures: the call graphs _build_call_graph sees
\* ------------------------------------------------------------------------
\* the argument of a call between procedures
ArgKinds == {"minus", "half", "plain"}

GraphArg(kind) ==
    CASE kind = "minus" -> NMinus(1)
      [] kind = "half" -> BinOp("DIV", Var(<<"n">>), Number(2))
      [] kind = "plain" -> Var(<<"n">>)

\* a call as a statement, or as the expression of an assignment
CallForms == {"call", "call_expr"}

GraphCall(form, name, kind) ==
    IF form = "call" THEN Call(name, <<GraphArg(kind)>>)
    ELSE Assign(Var(<<"r">>), CallExpr(name, <<GraphArg(kind)>>))

RECURSIVE GraphCalls(_, _, _)
GraphCalls(form, names, kind) ==
    IF Len(names) = 0 THEN << >>
    ELSE <<GraphCall(form, Head(names), kind)>> \o GraphCalls(form, Tail(names), kind)

\* if n <= 1 return n else { the calls }; a procedure that calls nothing
\* has a constant body
GraphBody(form, names, kind) ==
    IF Len(names) = 0 THEN ConstantBody
    ELSE Block(<<If(BaseCase(1), Block(<<Return(Var(<<"n">>))>>),
                    Block(GraphCalls(form, names, kind)))>>)

\* the callees of each declared procedure, in declaration order
GraphShapes ==
    [mutual      |-> <<<<<<"A">>, <<<<"B">>>>>>, <<<<"B">>, <<<<"A">>>>>>>>,
     cycle_below |-> <<<<<<"A">>, <<<<"B">>>>>>, <<<<"B">>, <<<<"C">>>>>>, <<<<"C">>, <<<<"B">>>>>>>>,
     twice       |-> <<<<<<"A">>, <<<<"B">>, <<"B">>>>>>, <<<<"B">>, << >>>>>>,
     diamond     |-> <<<<<<"A">>, <<<<"B">>, <<"C">>>>>>, <<<<"B">>, <<<<"D">>>>>>,
                       <<<<"C">>, <<<<"D">>>>>>, <<<<"D">>, << >>>>>>,
     fan         |-> <<<<<<"A">>, <<<<"B">>, <<"C">>>>>>, <<<<"B">>, << >>>>, <<<<"C">>, << >>>>>>,
     chain       |-> <<<<<<"A">>, <<<<"B">>>>>>, <<<<"B">>, <<<<"C">>>>>>, <<<<"C">>, << >>>>>>,
     helper      |-> <<<<<<"A">>, <<<<"A">>, <<"B">>>>>>, <<<<"B">>, << >>>>>>,
     beside      |-> <<<<<<"A">>, <<<<"B">>>>>>, <<<<"B">>, <<<<"A">>>>>>, <<<<"C">>, <<<<"C">>>>>>>>,
     quad        |-> <<<<<<"A">>, <<<<"A">>, <<"A">>, <<"A">>, <<"A">>>>>>>>,
     undeclared  |-> <<<<<<"A">>, <<<<"X">>, <<"X">>>>>>>>]

GraphProcedures(shape, form, kind) ==
    [i \in 1..Len(GraphShapes[shape]) |->
       ProcedureDecl(GraphShapes[shape][i][1], <<PrimitiveParam(<<"n">>)>>,
                     GraphBody(form, GraphShapes[shape][i][2], kind))]

GraphProgram(shape, form, kind) ==
    Program(GraphProcedures(shape, form, kind), MainCall(<<"A">>))

GraphPrograms ==
    {GraphProgram(shape, form, kind) :
        shape \in DOMAIN GraphShapes, form \in CallForms, kind \in ArgKinds}

\* ------------------------------------------------------------------------
\* Programs whose main body is a sequence of parts of different cost
\* ------------------------------------------------------------------------
\* k assignments of a literal, one after another
Assignments(k) == [i \in 1..k |-> Assign(Var(<<"x">>), Number(0))]

\* a block of k constant-cost statements
ConstPart(k) == Block(Assignments(k))

\* depth nested for loops from 1 to n around k constant-cost statements
RECURSIVE LoopPart(_, _)
LoopPart(depth, k) ==
    IF depth = 0 THEN ConstPart(k)
    ELSE For(LoopVars[depth], Number(1), Var(<<"n">>), LoopPart(depth - 1, k))

\* the statements per iteration and per constant block: the sums a*n^d + c
\* they produce have no common factor
LoopWeights == {1, 3}

ConstWeights == {2, 5, 7}

SequencePrograms ==
    {Program(<< >>, <<LoopPart(d, w), ConstPart(c)>>) :
        d \in 1..MaxDepth, w \in LoopWeights, c \in ConstWeights}
    \cup {Program(<< >>, <<ConstPart(c), LoopPart(d, w)>>) :
        d \in 1..MaxDepth, w \in LoopWeights, c \in ConstWeights}
    \cup {Program(<< >>, <<ConstPart(c), For(<<"i">>, Number(1), Number(c), ConstPart(1))>>) :
        c \in ConstWeights}

\* ------------------------------------------------------------------------
\* Variants of the merge phase of a divide-and-conquer procedure
\* ------------------------------------------------------------------------
\* the condition of the merge loop: a conjunction, or a single comparison
MergeCondition(conjunction) ==
    IF conjunction
    THEN BinOp("AND", BinOp("LE", Var(<<"i">>), Var(<<"m">>)), BinOp("LE", Var(<<"j">>), Var(<<"f">>)))
    ELSE BinOp("LE", Var(<<"i">>), Var(<<"m">>))

\* the first statement of the merge loop: Temp[k] <- A[i], or s <- s + 1
MergeStep(copy) ==
    IF copy
    THEN Assign(ArrayAccess(Var(<<"T","e","m","p">>), Var(<<"k">>)), ArrayAccess(Var(<<"A">>), Var(<<"i">>)))
    ELSE Assign(Var(<<"s">>), BinOp("PLUS", Var(<<"s">>), Number(1)))

MergeLoopVariant(conjunction, copy) ==
    While(MergeCondition(conjunction),
          Block(<<MergeStep(copy),
                  Assign(Var(<<"i">>), BinOp("PLUS", Var(<<"i">>), Number(1)))>>))

\* two recursions on the halves, then the loop
MergeVariantBody(name, mid, conjunction, copy) ==
    Block(<<Midpoint(mid),
            Call(name, <<Var(<<"A">>), Var(<<"i","n","i","c","i","o">>), Var(mid)>>),
            Call(name, <<Var(<<"A">>), BinOp("PLUS", Var(mid), Number(1)), Var(<<"f","i","n">>)>>),
            MergeLoopVariant(conjunction, copy)>>)

MergeProgram(name, mid, conjunction, copy) ==
    Program(<<ProcedureDecl(name, <<PrimitiveParam(<<"n">>)>>,
                            MergeVariantBody(name, mid, conjunction, copy))>>,
            MainCall(name))

MergePrograms ==
    {MergeProgram(name, mid, conjunction, copy) :
        name \in ProcedureNames, mid \in MidNames,
        conjunction \in BOOLEAN, copy \in BOOLEAN}

\* ------------------------------------------------------------------------
\* Programs whose main block calls one iterative procedure several times
\* ------------------------------------------------------------------------
MaxCallSites == 3

\* bodies of the called procedure: constant work, a loop over the input, a
\* call of a procedure that is not declared
HelperBodies ==
    { ConstantBody,
      Block(<<For(<<"j">>, Number(1), Var(<<"n">>), ConstantBody)>>),
      Block(<<Call(<<"r","e","g","i","s","t","r","a","r">>, << >>)>>) }

\* one call site: call P(n), or x <- P(n)
CallSite(name, form) ==
    IF form = "call" THEN Call(name, <<Var(<<"n">>)>>)
    ELSE Assign(Var(<<"x">>), CallExpr(name, <<Var(<<"n">>)>>))

\* sites call sites one after another
CallSites(name, form, sites) == [i \in 1..sites |-> CallSite(name, form)]

HelperProgram(name, body, form, sites) ==
    Program(<<ProcedureDecl(name, <<PrimitiveParam(<<"n">>)>>, body)>>,
            <<Block(CallSites(name, form, sites))>>)

HelperPrograms ==
    {HelperProgram(name, body, form, sites) :
        name \in ProcedureNames, body \in HelperBodies,
        form \in CallForms, sites \in 1..MaxCallSites}
\* ------------------------------------------------------------------------
\* The loops analysed on their own
\* ------------------------------------------------------------------------
MaxBound == 2

Condition == BinOp("EQ", ArrayAccess(Var(<<"A">>), Var(<<"i">>)), Var(<<"x">>))

OtherWork == Block(<<Assign(Var(<<"x">>), Number(0))>>)

InnerLoop == For(<<"j">>, Number(1), Var(<<"n">>), ConstantBody)

LoopBodies ==
    { ConstantBody,
      \* if ... then encontrado <- T else ...
      Block(<<If(Condition, Block(<<Assign(Var(<<"e","n","c","o","n","t","r","a","d","o">>), Boolean(TRUE))>>), OtherWork)>>),
      \* the same without else
      Block(<<If(Condition, Block(<<Assign(Var(<<"e","n","c","o","n","t","r","a","d","o">>), Boolean(TRUE))>>), None)>>),
      \* if ... then k <- 0 else ...
      Block(<<If(Condition, Block(<<Assign(Var(<<"k">>), Number(0))>>), OtherWork)>>),
      \* if ... then y <- 0 else ...: no early-exit signature
      Block(<<If(Condition, Block(<<Assign(Var(<<"y">>), Number(0))>>), OtherWork)>>),
      \* an early-exit test followed by a loop over the input
      Block(<<If(Condition, Block(<<Assign(Var(<<"e","n","c","o","n","t","r","a","d","o">>), Boolean(TRUE))>>), OtherWork),
              InnerLoop>>),
      Block(<<InnerLoop>>),
      \* i <- i * 2 and i <- i + 1
      Block(<<Assign(Var(<<"i">>), BinOp("MULT", Var(<<"i">>), Number(2)))>>),
      Block(<<Assign(Var(<<"i">>), BinOp("PLUS", Var(<<"i">>), Number(1)))>>) }

\* bodies that only update the control variable: i <- i div 2, i <- i / 2,
\* i <- i - 1, i <- i * 3, i <- i * i
StepBodies ==
    { Block(<<Assign(Var(<<"i">>), BinOp(op, Var(<<"i">>), Number(2)))>>) : op \in {"DIV_INT", "DIV"} }
    \cup { Block(<<Assign(Var(<<"i">>), BinOp("MINUS", Var(<<"i">>), Number(1)))>>),
           Block(<<Assign(Var(<<"i">>), BinOp("MULT", Var(<<"i">>), Number(3)))>>),
           Block(<<Assign(Var(<<"i">>), BinOp("MULT", Var(<<"i">>), Var(<<"i">>)))>>) }

ForEnds == {Number(e) : e \in 0..MaxBound} \cup {Var(<<"n">>), Length}

LoopConditions == {BinOp("LT", Var(<<"i">>), Var(<<"n">>)), Boolean(TRUE)}

LoopNodes ==
    {For(<<"i">>, Number(s), end, body) : s \in 0..MaxBound, end \in ForEnds, body \in LoopBodies}
    \cup {While(cond, body) : cond \in LoopConditions, body \in LoopBodies \cup StepBodies}
    \cup {[type |-> "repeat", body |-> body.body, cond |-> cond] :
            cond \in LoopConditions, body \in LoopBodies \cup StepBodies}

\* ------------------------------------------------------------------------
\* The recurrences solved on their own
\* ------------------------------------------------------------------------
MaxA == 3

MaxB == 3

WorkLabels == {<<"1">>, <<"n">>, <<"n","^","2">>, <<"l","o","g","(","n",")">>, <<"n","*","l","o","g","(","n",")">>}

Relations ==
    {RecurrenceRelation(a, b, f, rt) :
        a \in 0..MaxA, b \in 1..MaxB, f \in WorkLabels, rt \in {"divide", "subtract"}}

\* ------------------------------------------------------------------------
\* State: a value not yet computed (or not used by the specification at
\* hand) is << >>, a computed value v is << v >>
\* ------------------------------------------------------------------------
VARIABLES recurrence, solution, loop_node, loop_cases, loop_complexity,
          ast, recursion_info, complexity, classification, second, responses,
          tracer

vars == <<recurrence, solution, loop_node, loop_cases, loop_complexity,
          ast, recursion_info, complexity, classification, second, responses,
          tracer>>

solveVars == <<recurrence, solution>>

loopVars == <<loop_node, loop_cases, loop_complexity>>

pipelineVars == <<ast, recursion_info, complexity, classification>>

runVars == <<second>>

apiVars == <<responses>>

tracerVars == <<tracer>>

\* RecurrenceSolver().solve(recurrence)
SolveStep ==
    /\ recurrence # << >>
    /\ solution = << >>
    /\ solution' = <<Solve(recurrence[1])>>
    /\ UNCHANGED <<recurrence, loopVars, pipelineVars, runVars, apiVars, tracerVars>>

\* CaseAnalyzer().analyze_loop_cases(loop_node)
AnalyzeLoopCasesStep ==
    /\ loop_node # << >>
    /\ loop_cases = << >>
    /\ loop_cases' = <<AnalyzeLoopCases(loop_node[1])>>
    /\ UNCHANGED <<loop_node, loop_complexity, solveVars, pipelineVars, runVars, apiVars, tracerVars>>

\* ComplexityAnalyzer(ast)._analyze_statement(loop_node) in a program
\* without procedures
AnalyzeLoopStatement ==
    /\ loop_node # << >>
    /\ loop_complexity = << >>
    /\ loop_complexity' =
         <<AnalyzeStatement(loop_node[1], Context(Program(<< >>, << >>), << >>, << >>),
                            RecursionLimit)>>
    /\ UNCHANGED <<loop_node, loop_cases, solveVars, pipelineVars, runVars, apiVars, tracerVars>>

\* RecursionDetector(ast).analyze()
Detect ==
    /\ ast # << >>
    /\ recursion_info = << >>
    /\ recursion_info' = <<DetectorAnalyze(ast[1])>>
    /\ UNCHANGED <<ast, complexity, classification, solveVars, loopVars, runVars, apiVars, tracerVars>>

\* ComplexityAnalyzer(ast, recursion_info).analyze()
AnalyzeComplexity ==
    /\ recursion_info # << >>
    /\ complexity = << >>
    /\ complexity' = <<Analyze(ast[1], recursion_info[1])>>
    /\ UNCHANGED <<ast, recursion_info, classification, solveVars, loopVars, runVars, apiVars, tracerVars>>

\* PatternClassifier().classify(...) for every entry of
\* per_procedure_analysis (main.py, app/services/analysis_service.py)
ClassifyPatterns ==
    /\ complexity # << >>
    /\ ~complexity[1].raised
    /\ classification = << >>
    /\ classification' =
         <<[p \in DOMAIN complexity[1].per_procedure_analysis |->
              LET entry == complexity[1].per_procedure_analysis[p] IN
              Classify(p, entry.recursion_info, entry.solution, entry.relation)]>>
    /\ UNCHANGED <<ast, recursion_info, complexity, solveVars, loopVars, runVars, apiVars, tracerVars>>

IdleSolve == recurrence = << >> /\ solution = << >>

IdleLoop == loop_node = << >> /\ loop_cases = << >> /\ loop_complexity = << >>

IdlePipeline ==
    ast = << >> /\ recursion_info = << >> /\ complexity = << >> /\ classification = << >>

IdleRuns == second = << >>

IdleApi == responses = << >>

IdleTracer == tracer = << >>

InitSolve ==
    /\ recurrence \in {<<r>> : r \in Relations}
    /\ solution = << >>
    /\ IdleLoop /\ IdlePipeline /\ IdleRuns /\ IdleApi /\ IdleTracer

InitLoop ==
    /\ loop_node \in {<<l>> : l \in LoopNodes}
    /\ loop_cases = << >> /\ loop_complexity = << >>
    /\ IdleSolve /\ IdlePipeline /\ IdleRuns /\ IdleApi /\ IdleTracer

Init ==
    /\ ast \in {<<p>> : p \in Programs}
    /\ recursion_info = << >> /\ complexity = << >> /\ classification = << >>
    /\ IdleSolve /\ IdleLoop /\ IdleRuns /\ IdleApi /\ IdleTracer

NextLoop == AnalyzeLoopCasesStep \/ AnalyzeLoopStatement

Next == Detect \/ AnalyzeComplexity \/ ClassifyPatterns

SpecSolve == InitSolve /\ [][SolveStep]_vars

SpecLoop == InitLoop /\ [][NextLoop]_vars

Spec == Init /\ [][Next]_vars


\* ------------------------------------------------------------------------
\* Several procedures, and a second analysis of the same AST
\* ------------------------------------------------------------------------
InitGraph ==
    /\ ast \in {<<p>> : p \in GraphPrograms}
    /\ recursion_info = << >> /\ complexity = << >> /\ classification = << >>
    /\ IdleSolve /\ IdleLoop /\ IdleRuns /\ IdleApi /\ IdleTracer

SpecGraph == InitGraph /\ [][Next]_vars

\* the containers an analyzer accumulates into
AnalyzerState(steps, per_procedure_analysis, recurrence_solutions) ==
    [steps |-> steps, per_procedure_analysis |-> per_procedure_analysis,
     recurrence_solutions |-> recurrence_solutions]

\* containers that outlive the instance, as class-level attributes would
SharedAnalyzerState(earlier) ==
    AnalyzerState(earlier.steps, earlier.per_procedure_analysis, earlier.recurrence_info)

\* ComplexityAnalyzer.__init__: steps, per_procedure_analysis and
\* recurrence_solutions are new empty containers, whatever an earlier
\* instance produced
AnalyzerInit(earlier) == AnalyzerState(<< >>, << >>, << >>)

\* dict.update, key by key
MergeDict(old, new) ==
    [k \in DOMAIN old \cup DOMAIN new |-> IF k \in DOMAIN new THEN new[k] ELSE old[k]]

\* what analyze returns when it appends to and stores into the containers
\* of this instance
Accumulated(instance, result) ==
    IF result.raised THEN result
    ELSE [result EXCEPT
            !.steps = instance.steps \o @,
            !.per_procedure_analysis = MergeDict(instance.per_procedure_analysis, @),
            !.recurrence_info = MergeDict(instance.recurrence_solutions, @)]

\* RecursionDetector(ast).analyze() and ComplexityAnalyzer(ast, info).analyze()
\* once more on the same AST, with new instances of both
AnalyzeAgain ==
    /\ complexity # << >>
    /\ second = << >>
    /\ second' = <<Accumulated(AnalyzerInit(complexity[1]),
                               Analyze(ast[1], DetectorAnalyze(ast[1])))>>
    /\ UNCHANGED <<pipelineVars, solveVars, loopVars, apiVars, tracerVars>>

InitRuns ==
    /\ ast \in {<<p>> : p \in Programs \cup GraphPrograms}
    /\ recursion_info = << >> /\ complexity = << >> /\ classification = << >>
    /\ IdleSolve /\ IdleLoop /\ IdleRuns /\ IdleApi /\ IdleTracer

NextRuns == Detect \/ AnalyzeComplexity \/ AnalyzeAgain

SpecRuns == InitRuns /\ [][NextRuns]_vars

InitSequence ==
    /\ ast \in {<<p>> : p \in SequencePrograms}
    /\ recursion_info = << >> /\ complexity = << >> /\ classification = << >>
    /\ IdleSolve /\ IdleLoop /\ IdleRuns /\ IdleApi /\ IdleTracer

SpecSequence == InitSequence /\ [][Next]_vars

InitMerge ==
    /\ ast \in {<<p>> : p \in MergePrograms}
    /\ recursion_info = << >> /\ complexity = << >> /\ classification = << >>
    /\ IdleSolve /\ IdleLoop /\ IdleRuns /\ IdleApi /\ IdleTracer

SpecMerge == InitMerge /\ [][Next]_vars

\* ------------------------------------------------------------------------
\* The HTTP interface (app/controllers/analysis_controller.py)
\* ------------------------------------------------------------------------
\* str.count: occurrences that do not overlap, from the left
RECURSIVE Count(_, _)
Count(s, t) ==
    IF Len(s) < Len(t) THEN 0
    ELSE IF SubSeq(s, 1, Len(t)) = t THEN 1 + Count(SubSeq(s, Len(t) + 1, Len(s)), t)
    ELSE Count(Tail(s), t)

MaxCodeLength == 100000

\* ValidationService.validate_syntax: is_valid
ValidateSyntax(code) ==
    /\ Strip(code) # << >>
    /\ Len(code) <= MaxCodeLength
    /\ Count(Lower(code), <<"b","e","g","i","n">>) = Count(Lower(code), <<"e","n","d">>)

\* a request body with what Lexer and Parser make of its code: << >> when
\* one of them raises (the assignment arrow is written <- here)
AnalysisRequest(code, parsed) == [code |-> code, parsed |-> parsed]

Requests ==
    { AnalysisRequest(<<"b","e","g","i","n"," ","x"," ","<","-"," ","1"," ","e","n","d">>,
                      <<Program(<< >>, <<Block(<<Assign(Var(<<"x">>), Number(1))>>)>>)>>),
      AnalysisRequest(<<"b","e","g","i","n"," ","f","o","r"," ","i"," ","<","-"," ","1"," ","t","o"," ","n"," ","d","o"," ","b","e","g","i","n"," ","x"," ","<","-"," ","x"," ","+"," ","1"," ","e","n","d"," ","e","n","d">>,
                      <<LoopProgram(1, Var(<<"n">>))>>),
      AnalysisRequest(<<"b","e","g","i","n"," ","x"," ","<","-"," ","e","n","d">>, << >>),
      AnalysisRequest(<<"b","e","g","i","n"," ","x"," ","<","-"," ","1">>, << >>),
      AnalysisRequest(<<" "," ">>, << >>) }

\* status, error_type of the detail, and metadata["from_cache"] when the
\* response carries metadata
Response(status, error_type, from_cache) ==
    [status |-> status, error_type |-> error_type, from_cache |-> from_cache]

\* AnalysisService.analyze: every exception leaves it as AnalysisError
ServiceAnalyze(request) ==
    IF request.parsed = << >> THEN [raised |-> TRUE]
    ELSE [raised |-> Analyze(request.parsed[1], DetectorAnalyze(request.parsed[1])).raised]

\* analyze_code: the HTTPException of a failed validation is raised inside
\* the try block and caught by its last handler
AnalyzeCode(request) ==
    IF ~ValidateSyntax(request.code) THEN Response(500, "InternalError", << >>)
    ELSE IF ServiceAnalyze(request).raised THEN Response(500, "AnalysisError", << >>)
    ELSE Response(200, "", <<FALSE>>)

\* clear_cache
ClearCache == Response(200, "", << >>)

\* one request served: what was asked and what was answered
Exchange(op, code, response) == [op |-> op, code |-> code, response |-> response]

MaxRequests == 3

\* POST /api/v1/analysis/analyze
PostAnalyze(request) ==
    /\ Len(responses) < MaxRequests
    /\ responses' = Append(responses, Exchange("analyze", request.code, AnalyzeCode(request)))
    /\ UNCHANGED <<solveVars, loopVars, pipelineVars, runVars, tracerVars>>

\* DELETE /api/v1/analysis/cache
DeleteCache ==
    /\ Len(responses) < MaxRequests
    /\ responses' = Append(responses, Exchange("clear_cache", << >>, ClearCache))
    /\ UNCHANGED <<solveVars, loopVars, pipelineVars, runVars, tracerVars>>

InitApi == IdleSolve /\ IdleLoop /\ IdlePipeline /\ IdleRuns /\ IdleApi /\ IdleTracer

NextApi == (\E request \in Requests : PostAnalyze(request)) \/ DeleteCache

SpecApi == InitApi /\ [][NextApi]_vars

\* ------------------------------------------------------------------------
\* One analyzer used twice, and an analyzer built without recursion_info
\* ------------------------------------------------------------------------
\* the containers of an instance whose analyze() returned first: steps,
\* per_procedure_analysis and recurrence_solutions are the objects the
\* returned Complexity refers to
InstanceAfter(first) ==
    AnalyzerState(first.steps, first.per_procedure_analysis, first.recurrence_info)

\* analyze() once more on the instance that produced complexity: the call
\* appends to self.steps, the list the first Complexity holds as well
AnalyzeOnSameInstance ==
    /\ complexity # << >>
    /\ ~complexity[1].raised
    /\ second = << >>
    /\ second' = <<Accumulated(InstanceAfter(complexity[1]),
                               Analyze(ast[1], recursion_info[1]))>>
    /\ complexity' = <<[complexity[1] EXCEPT !.steps = second'[1].steps]>>
    /\ UNCHANGED <<ast, recursion_info, classification, solveVars, loopVars, apiVars, tracerVars>>

InitCalls ==
    /\ ast \in {<<p>> : p \in HelperPrograms}
    /\ recursion_info = << >> /\ complexity = << >> /\ classification = << >>
    /\ IdleSolve /\ IdleLoop /\ IdleRuns /\ IdleApi /\ IdleTracer

NextCalls == Detect \/ AnalyzeComplexity \/ AnalyzeOnSameInstance

SpecCalls == InitCalls /\ [][NextCalls]_vars

\* ComplexityAnalyzer(ast).analyze(): recursion_info defaults to {}
AnalyzeUninformed ==
    /\ ast # << >>
    /\ recursion_info = << >>
    /\ complexity = << >>
    /\ complexity' = <<Analyze(ast[1], << >>)>>
    /\ UNCHANGED <<ast, recursion_info, classification, solveVars, loopVars, runVars, apiVars, tracerVars>>

InitUninformed ==
    /\ ast \in {<<p>> : p \in Programs \cup HelperPrograms}
    /\ recursion_info = << >> /\ complexity = << >> /\ classification = << >>
    /\ IdleSolve /\ IdleLoop /\ IdleRuns /\ IdleApi /\ IdleTracer

NextUninformed == AnalyzeUninformed

SpecUninformed == InitUninformed /\ [][NextUninformed]_vars

\* ------------------------------------------------------------------------
\* The classifier on its own, fed with solved recurrences
\* ------------------------------------------------------------------------
MaxCallCount == 3

ClassifiedNames == {<<"P">>, <<"h","a","n","o","i">>}

\* what a RecursionInfo of a recursive procedure can hold
RecursionInfos ==
    {RecursionInfo(TRUE, "direct", count, << >>, pattern, sub, combine) :
        count \in 1..MaxCallCount,
        pattern \in {"linear", "tree", "divide_and_conquer"},
        sub \in {<<"n","/","2">>, <<"n","-","1">>, <<"u","n","k","n","o","w","n">>},
        combine \in BOOLEAN}

\* PatternClassifier().classify(name, info, solution, recurrence) with the
\* solution the solver returned for recurrence
ClassifySolved ==
    /\ solution # << >>
    /\ ~solution[1].raised
    /\ recursion_info = << >>
    /\ \E name \in ClassifiedNames, info \in RecursionInfos :
          /\ recursion_info' = <<[p \in {name} |-> info]>>
          /\ classification' =
                <<[p \in {name} |-> Classify(name, info, solution[1], recurrence)]>>
    /\ UNCHANGED <<ast, complexity, solveVars, loopVars, runVars, apiVars, tracerVars>>

NextClassify == SolveStep \/ ClassifySolved

SpecClassify == InitSolve /\ [][NextClassify]_vars

\* ------------------------------------------------------------------------
\* ExecutionTracer (analyzer/execution_tracer.py)
\* ------------------------------------------------------------------------
\* Scope dicts are shared by reference between scope_tree, the children
\* lists, scope_stack and current_scope: scopes holds them in creation
\* order, and a reference is the index into scopes. scope_tree is index 1.
MaxScopes == 3

MaxSteps == 2

\* ExecutionStep.__init__: the step keeps a copy of the call stack
ExecutionStep(step_id, action, call_stack) ==
    [step_id |-> step_id, action |-> action, call_stack |-> call_stack]

\* the dict enter_scope builds
NewScope(scope_name, scope_type, start_step) ==
    [name |-> scope_name, type |-> scope_type, children |-> << >>, steps |-> << >>,
     start_step |-> <<start_step>>, end_step |-> << >>]

\* ExecutionTracer.__init__
TracerInit ==
    [steps |-> << >>,
     step_counter |-> 0,
     current_call_stack |-> <<<<"<","m","a","i","n",">">>>>,
     scopes |-> <<[name |-> <<"<","m","a","i","n",">">>, type |-> "main", children |-> << >>, steps |-> << >>,
                   start_step |-> << >>, end_step |-> << >>]>>,
     current_scope |-> 1,
     scope_stack |-> <<1>>]

\* a capture_step that numbers the step without advancing the counter
CaptureStepSameId(t, action) ==
    [t EXCEPT !.steps = Append(@, ExecutionStep(t.step_counter, action, t.current_call_stack)),
              !.scopes[t.current_scope].steps = Append(@, t.step_counter)]

\* capture_step
CaptureStep(t, action) ==
    [t EXCEPT !.steps = Append(@, ExecutionStep(t.step_counter, action, t.current_call_stack)),
              !.scopes[t.current_scope].steps = Append(@, t.step_counter),
              !.step_counter = @ + 1]

\* enter_scope
EnterScope(t, scope_name, scope_type) ==
    [t EXCEPT !.scopes = Append([@ EXCEPT ![t.current_scope].children = Append(@, Len(t.scopes) + 1)],
                                NewScope(scope_name, scope_type, t.step_counter)),
              !.scope_stack = Append(@, Len(t.scopes) + 1),
              !.current_scope = Len(t.scopes) + 1,
              !.current_call_stack = IF scope_type = "procedure" THEN Append(@, scope_name) ELSE @]

Front(s) == SubSeq(s, 1, Len(s) - 1)

\* exit_scope; scope_type "none" is the default None
ExitScope(t, scope_type) ==
    IF Len(t.scope_stack) > 1
    THEN [t EXCEPT !.scopes[t.scope_stack[Len(t.scope_stack)]].end_step = <<t.step_counter - 1>>,
                   !.scope_stack = Front(@),
                   !.current_scope = t.scope_stack[Len(t.scope_stack) - 1],
                   !.current_call_stack =
                       IF scope_type = "procedure" /\ Len(@) > 1 THEN Front(@) ELSE @]
    ELSE t

\* the scopes the traced interpreter enters: a procedure call, a for loop
ScopeKinds == {<<<<"P">>, "procedure">>, <<<<"f","o","r","_","i">>, "for">>}

ExitTypes == {"none", "procedure", "for"}

StepActions == {<<"e","n","t","e","r","_","a","s","s","i","g","n">>}

DoCaptureStep ==
    /\ tracer # << >>
    /\ tracer[1].step_counter < MaxSteps
    /\ \E action \in StepActions : tracer' = <<CaptureStep(tracer[1], action)>>
    /\ UNCHANGED <<solveVars, loopVars, pipelineVars, runVars, apiVars>>

DoEnterScope ==
    /\ tracer # << >>
    /\ Len(tracer[1].scopes) <= MaxScopes
    /\ \E kind \in ScopeKinds : tracer' = <<EnterScope(tracer[1], kind[1], kind[2])>>
    /\ UNCHANGED <<solveVars, loopVars, pipelineVars, runVars, apiVars>>

DoExitScope ==
    /\ tracer # << >>
    /\ \E scope_type \in ExitTypes : tracer' = <<ExitScope(tracer[1], scope_type)>>
    /\ UNCHANGED <<solveVars, loopVars, pipelineVars, runVars, apiVars>>

InitTracer ==
    /\ tracer = <<TracerInit>>
    /\ IdleSolve /\ IdleLoop /\ IdlePipeline /\ IdleRuns /\ IdleApi

NextTracer == DoCaptureStep \/ DoEnterScope \/ DoExitScope

SpecTracer == InitTracer /\ [][NextTracer]_vars
\* ------------------------------------------------------------------------
\* Properties
\* ------------------------------------------------------------------------
Solved(a, b, f, rt) == recurrence = <<RecurrenceRelation(a, b, f, rt)>> /\ solution # << >>

\* C1: solve maps the four reference recurrences to their closed forms:
\* T(n) = T(n/2) + O(1) to log n, T(n) = 2T(n/2) + O(n) to n log n,
\* T(n) = T(n-1) + O(1) to n and T(n) = 2T(n-1) + O(1) to 2^n.
C1_ReferenceRecurrences ==
    /\ Solved(1, 2, <<"1">>, "divide") => solution[1].complexity = <<"O","(","l","o","g","(","n",")",")">>
    /\ Solved(2, 2, <<"n">>, "divide") => solution[1].complexity = <<"O","(","n"," ","*"," ","l","o","g","(","n",")",")">>
    /\ Solved(1, 1, <<"1">>, "subtract") => solution[1].complexity = <<"O","(","n",")">>
    /\ Solved(2, 1, <<"1">>, "subtract") => solution[1].complexity = <<"O","(","2","^","n",")">>

C1_Witness ==
    /\ Solved(2, 1, <<"1">>, "subtract")
    /\ solution[1].complexity = <<"O","(","2","^","n",")">>
    /\ solution[1].method = "Expansion directa"

Analysed(shape, name) ==
    ast = <<RecursiveProgram(shape, name, <<"m","e","d","i","o">>)>> /\ complexity # << >>

Classified(shape, name) ==
    ast = <<RecursiveProgram(shape, name, <<"m","e","d","i","o">>)>> /\ classification # << >>

\* C2: for the Fibonacci shape with its two self-calls in expression
\* position inside a return, analyze records a relation whose text contains
\* "T(n-1) + T(n-2)", a solution label containing 2^n, and the big_o of a
\* program that calls the procedure is 2^n.
C2_FibonacciRecurrence ==
    \A name \in ProcedureNames :
        Analysed("fibonacci_expr", name) =>
            /\ ~complexity[1].raised
            /\ name \in DOMAIN complexity[1].recurrence_info
            /\ Contains(complexity[1].recurrence_info[name].relation, <<"T","(","n","-","1",")"," ","+"," ","T","(","n","-","2",")">>)
            /\ Contains(complexity[1].recurrence_info[name].solution, <<"2","^","n">>)
            /\ complexity[1].big_o = SymExp(2)

\* C3: the detector reports, for a procedure with two self-call sites on
\* n-1 and n-2, is_recursive, call_count = 2, depth_pattern = tree and the
\* mixed subproblem descriptor "n-1,n-2".
C3_MixedSubproblem ==
    \A name \in ProcedureNames : \A shape \in {"fibonacci_expr", "fibonacci_stmt"} :
        (ast = <<RecursiveProgram(shape, name, <<"m","e","d","i","o">>)>> /\ recursion_info # << >>) =>
            /\ recursion_info[1][name].is_recursive
            /\ recursion_info[1][name].call_count = 2
            /\ recursion_info[1][name].depth_pattern = "tree"
            /\ recursion_info[1][name].subproblem = <<"n","-","1",",","n","-","2">>

C5_Factorial ==
    Classified("factorial_expr", <<"F","a","c","t","o","r","i","a","l">>) =>
        /\ recursion_info[1][<<"F","a","c","t","o","r","i","a","l">>].recursion_type = "direct"
        /\ recursion_info[1][<<"F","a","c","t","o","r","i","a","l">>].call_count = 1
        /\ recursion_info[1][<<"F","a","c","t","o","r","i","a","l">>].depth_pattern = "linear"
        /\ recursion_info[1][<<"F","a","c","t","o","r","i","a","l">>].subproblem = <<"n","-","1">>
        /\ complexity[1].per_procedure_analysis[<<"F","a","c","t","o","r","i","a","l">>].complexity = <<"O","(","n",")">>
        /\ classification[1][<<"F","a","c","t","o","r","i","a","l">>].pattern = "FACTORIAL"

\* C6: the binary search with its two self-call sites in opposite branches
\* gets depth_pattern divide_and_conquer, subproblem n/2, a solution label
\* of O(log n), and is classified as Binary Search with confidence 1.0.
C6_BinarySearch ==
    \A mid \in MidNames :
        (ast = <<RecursiveProgram("binary_search", <<"B","u","s","q","u","e","d","a","B","i","n","a","r","i","a">>, mid)>>
         /\ classification # << >>) =>
            /\ recursion_info[1][<<"B","u","s","q","u","e","d","a","B","i","n","a","r","i","a">>].depth_pattern = "divide_and_conquer"
            /\ recursion_info[1][<<"B","u","s","q","u","e","d","a","B","i","n","a","r","i","a">>].subproblem = <<"n","/","2">>
            /\ complexity[1].per_procedure_analysis[<<"B","u","s","q","u","e","d","a","B","i","n","a","r","i","a">>].complexity
                 \in {<<"O","(","l","o","g"," ","n",")">>, <<"O","(","l","o","g","(","n",")",")">>}
            /\ classification[1][<<"B","u","s","q","u","e","d","a","B","i","n","a","r","i","a">>].pattern = "BINARY_SEARCH"
            /\ classification[1][<<"B","u","s","q","u","e","d","a","B","i","n","a","r","i","a">>].confidence = 100

\* C7: merge sort (two recursive calls on halves, then a merge loop) gets
\* depth_pattern divide_and_conquer, subproblem n/2, has_combining_work, the
\* solution label O(n log n), and is classified as Merge Sort.
C7_MergeSort ==
    \A mid \in MidNames :
        (ast = <<RecursiveProgram("merge_sort", <<"M","e","r","g","e","S","o","r","t">>, mid)>>
         /\ classification # << >>) =>
            /\ recursion_info[1][<<"M","e","r","g","e","S","o","r","t">>].depth_pattern = "divide_and_conquer"
            /\ recursion_info[1][<<"M","e","r","g","e","S","o","r","t">>].subproblem = <<"n","/","2">>
            /\ recursion_info[1][<<"M","e","r","g","e","S","o","r","t">>].has_combining_work
            /\ complexity[1].per_procedure_analysis[<<"M","e","r","g","e","S","o","r","t">>].complexity
                 \in {<<"O","(","n"," ","l","o","g"," ","n",")">>, <<"O","(","n"," ","*"," ","l","o","g","(","n",")",")">>}
            /\ classification[1][<<"M","e","r","g","e","S","o","r","t">>].pattern = "MERGE_SORT"

\* C8: for nested for loops that each range over 1..n around a constant-cost
\* body the reported worst case is n to the nesting depth: n^2 for two
\* loops, not 2n.
C8_NestedFor ==
    \A depth \in 1..MaxDepth : \A end \in {Var(<<"n">>), Length} :
        (ast = <<LoopProgram(depth, end)>> /\ complexity # << >>) =>
            /\ ~complexity[1].raised
            /\ complexity[1].big_o = SymPow(100 * depth)

C8_Witness ==
    /\ ast = <<LoopProgram(2, Var(<<"n">>))>>
    /\ complexity # << >>
    /\ complexity[1].big_o = SymPow(200)

StaticFor(node) ==
    node.type = "for" /\ node.start.type = "number" /\ node.end.type = "number"

DominanceClass(x) == IF IsNumber(x) THEN <<1, 0, 0, 0>> ELSE GrowthKey(Leading(x))

Dominated(x, y) == ~GrowthLess(DominanceClass(y), DominanceClass(x))

Ordered(triple) == Dominated(triple.best, triple.average) /\ Dominated(triple.average, triple.worst)

\* C10: every case triple of a loop satisfies best <= average <= worst in
\* the dominance order: the triple analyze_loop_cases returns, and the
\* triple the complexity analysis derives by multiplying with the body's.
C10_CaseOrder ==
    /\ loop_cases # << >> => Ordered(loop_cases[1])
    /\ (loop_complexity # << >> /\ ~loop_complexity[1].raised) => Ordered(loop_complexity[1])


PassedToSolve(p, prog, ri) ==
    RelationFor(IF p \in ProcNames(prog) THEN InferFromAst(p, prog, ri) ELSE << >>, ri[p])

WellFormedRelation(rel) ==
    /\ rel.a >= 1
    /\ rel.reduction_type = "divide" => rel.b >= 2
    /\ rel.reduction_type = "subtract" => rel.b >= 1

Flagged(ri) == {p \in DOMAIN ri : ri[p].is_recursive}

\* C12: every relation built for a procedure flagged recursive and passed
\* to solve has a >= 1, b >= 2 when it divides and b >= 1 when it subtracts
C12_RelationInvariant ==
    recursion_info # << >> =>
        \A p \in Flagged(recursion_info[1]) :
            PassedToSolve(p, ast[1], recursion_info[1]) # << >> =>
                WellFormedRelation(PassedToSolve(p, ast[1], recursion_info[1])[1])

\* C13: for every procedure flagged recursive the recursion phase of
\* analyze ends without raising and stores an entry: a solved relation, or
\* the heuristic fallback without a relation
C13_RecursionPhaseTotal ==
    complexity # << >> =>
        \A p \in Flagged(recursion_info[1]) :
            LET entry == AnalyzeRecursionOf(p, ast[1], recursion_info[1]) IN
            /\ ~entry.solution.raised
            /\ \/ entry.relation # << >>
               \/ entry.method = "Heuristica"

\* the procedures whose recurrence cannot be solved
Failing(prog, ri) == {p \in Flagged(ri) : AnalyzeRecursionOf(p, prog, ri).solution.raised}

\* C14: when the analysis of one procedure fails, analyze still returns a
\* Complexity in which every flagged procedure has an entry
C14_PartialFailure ==
    (complexity # << >> /\ Failing(ast[1], recursion_info[1]) # {}) =>
        /\ ~complexity[1].raised
        /\ Flagged(recursion_info[1]) \subseteq DOMAIN complexity[1].per_procedure_analysis

\* the names a procedure with the same body may carry
ClassifierNames == ProcedureNames \cup {<<"R","e","i","n","a","s">>, <<"P","e","r","m","u","t","a","r">>}

\* C15: for fixed recursion info, solution and relation, classify reports
\* the same pattern under every procedure name
C15_NameIndependent ==
    classification # << >> =>
        \A p \in DOMAIN classification[1] : \A name \in ClassifierNames :
            LET entry == complexity[1].per_procedure_analysis[p] IN
            Classify(name, entry.recursion_info, entry.solution, entry.relation).pattern
                = classification[1][p].pattern

\* the growth class n^d, without coefficient and without further terms
Reported(result, class) ==
    /\ ~result.raised
    /\ result.big_o = class /\ result.omega = class /\ result.theta = class

\* C16: each of big_o, omega and theta is the dominant growth class alone:
\* loops of cost w*n^d beside c constant statements are reported as n^d,
\* and constant statements with constant-bound loops as a constant
C16_DominantClass ==
    complexity # << >> =>
        /\ \A d \in 1..MaxDepth : \A w \in LoopWeights : \A c \in ConstWeights :
              ast[1].body \in {<<LoopPart(d, w), ConstPart(c)>>, <<ConstPart(c), LoopPart(d, w)>>}
                  => Reported(complexity[1], SymPow(100 * d))
        /\ (\A i \in 1..Len(ast[1].body) : QuickLoopCheck(ast[1].body[i], 0) = 0
                                            \/ StaticFor(ast[1].body[i]))
              => /\ ~complexity[1].raised
                 /\ IsNumber(complexity[1].big_o)
                 /\ IsNumber(complexity[1].omega)
                 /\ IsNumber(complexity[1].theta)

\* the statements of a then branch that assign to the variable var
RECURSIVE Overwrites(_, _)
Overwrites(node, var) ==
    /\ IsDict(node)
    /\ \/ node.type = "assign" /\ node.target.type = "var" /\ node.target.value = var
       \/ /\ node.type = "block"
          /\ \E i \in 1..Len(node.body.items) : Overwrites(node.body.items[i], var)

\* an if, anywhere below node, whose then branch assigns a boolean or
\* sentinel literal, assigns a flag variable, or overwrites var
RECURSIVE ExitsEarly(_, _)
ExitsEarly(node, var) ==
    \/ /\ IsDict(node) /\ node.type = "if"
       /\ HasFlagAssignment(node.then) \/ Overwrites(node.then, var)
    \/ \E i \in 1..Len(Kids(node)) : ExitsEarly(Kids(node)[i], var)

\* C17: for a for loop analyze_loop_cases returns differs = true, with
\* worst the full range, best 1 and average half the range, exactly when the
\* body holds an if whose then branch assigns a boolean or sentinel literal,
\* assigns a flag variable or overwrites the control variable of that loop
C17_EarlyExit ==
    (loop_cases # << >> /\ loop_node[1].type = "for") =>
        LET range == CalculateMaxIterations(loop_node[1].start, loop_node[1].end) IN
        IF ExitsEarly(loop_node[1].body, loop_node[1].var)
        THEN loop_cases[1] = CaseResult(range, PyNum(1, 1), Half(range), TRUE)
        ELSE loop_cases[1].differs = FALSE

\* the last statements of the control paths of a body: the last statement
\* of a block, both branches of an if (a missing else is a path that ends
\* without a statement)
RECURSIVE TerminalStatements(_)
TerminalStatements(node) ==
    IF IsList(node)
    THEN IF Len(node.items) = 0 THEN {None}
         ELSE TerminalStatements(node.items[Len(node.items)])
    ELSE IF node.type = "block" THEN TerminalStatements(node.body)
    ELSE IF node.type = "if"
    THEN TerminalStatements(node.then) \cup TerminalStatements(node.else)
    ELSE {node}

SelfCall(node, p) == node.type \in {"call", "call_expr"} /\ node.name = p

\* C19: a recursive procedure has recursion_type "tail" exactly when every
\* terminal statement of its body is a call to the procedure itself
C19_TailRecursion ==
    recursion_info # << >> =>
        \A p \in Flagged(recursion_info[1]) :
            (recursion_info[1][p].recursion_type = "tail")
                <=> \A s \in TerminalStatements(ProcAst(ast[1], p).body) : SelfCall(s, p)

\* the procedures a declared procedure calls, among the declared ones
Callees(prog, p) ==
    {CallGraph(prog)[p][i] : i \in 1..Len(CallGraph(prog)[p])} \cap ProcNames(prog)

\* the declared procedures reachable from p by at least one call
RECURSIVE ReachableIn(_, _, _)
ReachableIn(prog, from, k) ==
    IF k = 0 THEN from
    ELSE ReachableIn(prog, from \cup UNION {Callees(prog, q) : q \in from}, k - 1)

Reachable(prog, p) == ReachableIn(prog, Callees(prog, p), Cardinality(ProcNames(prog)))

\* a cycle of the call graph can be reached from p
ReachesCycle(prog, p) ==
    \E q \in Reachable(prog, p) \cup {p} : q \in Reachable(prog, q)

\* C20: a procedure that does not call itself is flagged recursive, of type
\* "indirect", exactly when a cycle of the call graph restricted to the
\* declared procedures can be reached from it
C20_IndirectRecursion ==
    recursion_info # << >> =>
        \A p \in ProcNames(ast[1]) :
            p \notin Callees(ast[1], p) =>
                /\ recursion_info[1][p].is_recursive <=> ReachesCycle(ast[1], p)
                /\ recursion_info[1][p].is_recursive
                       => recursion_info[1][p].recursion_type = "indirect"

Served(i) == responses[i].op = "analyze" /\ responses[i].response.status = 200

\* C18: of two consecutive successful POST /analyze requests with the same
\* code and no cache clear between them, the first reports from_cache =
\* false when nothing earlier cached that code, and the second reports
\* from_cache = true
C18_CacheHit ==
    \A i \in 1..(Len(responses) - 1) :
        (Served(i) /\ Served(i + 1) /\ responses[i].code = responses[i + 1].code) =>
            /\ (\A j \in 1..(i - 1) : responses[j].code # responses[i].code)
                   => responses[i].response.from_cache = <<FALSE>>
            /\ responses[i + 1].response.from_cache = <<TRUE>>

\* the structural count of self-call sites: 1 for a call statement or a
\* call inside an expression, the maximum of the two branches of an if, the
\* sum over everything else
RECURSIVE StructuralCount(_, _)
RECURSIVE StructuralCountIn(_, _)
StructuralCount(node, p) ==
    IF node.type = "if"
    THEN StructuralCount(node.cond, p)
         + SeqMax(StructuralCount(node.then, p), StructuralCount(node.else, p))
    ELSE (IF SelfCall(node, p) THEN 1 ELSE 0) + StructuralCountIn(Kids(node), p)
StructuralCountIn(seq, p) ==
    IF Len(seq) = 0 THEN 0
    ELSE StructuralCount(Head(seq), p) + StructuralCountIn(Tail(seq), p)

\* the relation inferred for the only procedure of a program
InferredFor(shape, name) ==
    PassedToSolve(name, RecursiveProgram(shape, name, <<"m","e","d","i","o">>), recursion_info[1])[1]

Detected(shape, name) ==
    ast = <<RecursiveProgram(shape, name, <<"m","e","d","i","o">>)>> /\ recursion_info # << >>

\* C21: the coefficient a of the inferred recurrence is the structural
\* count of self-call sites, statements and expressions alike: 1, with
\* b = 2 and a division, for binary search, 2 for a return of
\* F(n-1) + F(n-2)
C21_ActiveCallCount ==
    /\ recursion_info # << >> =>
          \A p \in Flagged(recursion_info[1]) :
              PassedToSolve(p, ast[1], recursion_info[1]) # << >>
              /\ PassedToSolve(p, ast[1], recursion_info[1])[1].a
                     = StructuralCount(ProcAst(ast[1], p).body, p)
    /\ \A name \in ProcedureNames :
          /\ Detected("binary_search", name) =>
                /\ InferredFor("binary_search", name).a = 1
                /\ InferredFor("binary_search", name).b = 2
                /\ InferredFor("binary_search", name).reduction_type = "divide"
          /\ Detected("fibonacci_expr", name) => InferredFor("fibonacci_expr", name).a = 2

\* C22: for every recursive procedure the call_count of its RecursionInfo
\* equals the coefficient a of its recurrence
C22_OneCounter ==
    recursion_info # << >> =>
        \A p \in Flagged(recursion_info[1]) :
            PassedToSolve(p, ast[1], recursion_info[1]) # << >> =>
                recursion_info[1][p].call_count
                    = PassedToSolve(p, ast[1], recursion_info[1])[1].a

\* a while or repeat loop below node whose condition is a conjunction and
\* whose own body copies an array element into an array element
RECURSIVE MergesInLoop(_)
MergesInLoop(node) ==
    \/ /\ IsDict(node) /\ node.type \in {"while", "repeat"}
       /\ node.cond.type = "binop" /\ node.cond.op = "AND"
       /\ BodyContainsArrayCopy(node.body)
    \/ \E i \in 1..Len(Kids(node)) : MergesInLoop(Kids(node)[i])

\* C23: has_combining_work holds exactly when the body has a loop with a
\* conjunction as condition and an array-to-array copy in its own body
C23_CombiningWork ==
    recursion_info # << >> =>
        \A p \in Flagged(recursion_info[1]) :
            recursion_info[1][p].has_combining_work
                <=> MergesInLoop(ProcAst(ast[1], p).body)

\* the statements of a loop body: of a block, or of a statement list
BodyStatements(body) == IF IsList(body) THEN body.items ELSE body.body.items

\* a while or repeat loop whose body is one assignment i <- i op x
StepLoop(node) ==
    /\ node.type \in {"while", "repeat"}
    /\ Len(BodyStatements(node.body)) = 1
    /\ BodyStatements(node.body)[1].type = "assign"
    /\ BodyStatements(node.body)[1].target = Var(<<"i">>)
    /\ BodyStatements(node.body)[1].expr.type = "binop"
    /\ BodyStatements(node.body)[1].expr.left = Var(<<"i">>)

\* the iteration count the update of the control variable stands for: n for
\* a constant added or subtracted, log n for a constant factor or divisor,
\* log log n for a squaring, n when the condition names no variable
StepIterations(cond, expr) ==
    IF cond.type # "binop" THEN SymN
    ELSE IF expr.op \in {"PLUS", "MINUS"} THEN SymN
    ELSE IF expr.op = "MULT" /\ expr.right = expr.left THEN SymLogLog
    ELSE IF expr.op \in {"MULT", "DIV", "DIV_INT"} /\ expr.right.type = "number" THEN SymLog
    ELSE SymN

\* C24: the worst case of a while or repeat loop whose body only updates
\* the control variable grows as the iteration count of that update: n for
\* + and -, log n for *, / and div by a constant, log log n for a squaring
C24_LoopIterations ==
    (loop_complexity # << >> /\ StepLoop(loop_node[1])) =>
        /\ ~loop_complexity[1].raised
        /\ DominanceClass(loop_complexity[1].worst)
              = DominanceClass(StepIterations(loop_node[1].cond, BodyStatements(loop_node[1].body)[1].expr))

\* C25: the analysis of every if statement, with or without else, returns a
\* triple: the worst case is the larger of the branches' worst cases, the
\* best case the smaller of their best cases, the average the mean of their
\* averages (an absent else costs 1)
BranchTriple(branch) ==
    IF branch = None THEN Triple(PyNum(1, 1), PyNum(1, 1), PyNum(1, 1), << >>)
    ELSE AnalyzeStatement(branch, Context(Program(<< >>, << >>), << >>, << >>), RecursionLimit)

IfOnly(node) ==
    /\ node.type \in {"while", "repeat"}
    /\ Len(BodyStatements(node.body)) = 1
    /\ BodyStatements(node.body)[1].type = "if"

IfResult(then_complexity, else_complexity, result) ==
    /\ ~result.raised
    /\ result.worst = SymMax(then_complexity.worst, else_complexity.worst)
    /\ result.best = SymMin(then_complexity.best, else_complexity.best)
    /\ result.average = Half(Add(then_complexity.average, else_complexity.average))

C25_IfTotal ==
    (loop_complexity # << >> /\ IfOnly(loop_node[1])) =>
        /\ ~loop_complexity[1].raised
        /\ IfResult(BranchTriple(BodyStatements(loop_node[1].body)[1].then),
                    BranchTriple(BodyStatements(loop_node[1].body)[1].else),
                    AnalyzeStatement(BodyStatements(loop_node[1].body)[1],
                                     Context(Program(<< >>, << >>), << >>, << >>),
                                     RecursionLimit))

\* the derivation steps of the body of the only procedure of a program
BodyDerivation(prog, info) ==
    AnalyzeStatement(prog.procedures[1].body, Context(prog, info, << >>), RecursionLimit).steps

\* step occurs in steps no more often than in the derivation of one walk
AtMostOnce(steps, derivation) ==
    \A i \in 1..Len(derivation) : CountOf(steps, derivation[i]) <= CountOf(derivation, derivation[i])

\* C26: however many call sites name an iterative procedure, the steps of
\* one analysis hold the derivation of its body at most once
C26_BodyWalkedOnce ==
    (complexity # << >> /\ second = << >> /\ ~complexity[1].raised) =>
        AtMostOnce(complexity[1].steps, BodyDerivation(ast[1], recursion_info[1]))

\* C27: a second analyze() on the same instance returns what a first call
\* returns, and leaves the Complexity of the first call as it was
C27_RepeatableOnInstance ==
    second # << >> =>
        /\ second[1] = Analyze(ast[1], recursion_info[1])
        /\ complexity[1] = Analyze(ast[1], recursion_info[1])

\* C28: analyze returns for every program when no recursion_info was given
C28_Terminates ==
    (complexity # << >> /\ recursion_info = << >>) => ~complexity[1].raised

\* the patterns of the classifier's table that name an algorithm
TablePatterns ==
    {"BINARY_SEARCH", "MERGE_SORT", "QUICK_SORT", "FIBONACCI", "FACTORIAL",
     "TOWER_OF_HANOI", "GCD_EUCLIDEAN", "POWER_RECURSIVE", "KARATSUBA"}

\* the recurrences the solver returns a solution for, each with its solution
SolvedRelations == {pair \in {<<rel, Solve(rel)>> : rel \in Relations} : ~pair[2].raised}

\* the patterns classify returns over every name, RecursionInfo and solved
\* recurrence
PatternsOf(solved) ==
    {Classify(name, info, pair[2], <<pair[1]>>).pattern :
        name \in ClassifiedNames, info \in RecursionInfos, pair \in solved}

\* the only classified procedure and its RecursionInfo
ClassifiedName == CHOOSE p \in DOMAIN classification[1] : TRUE

\* C29: every pattern of the table is returned for some RecursionInfo and
\* some solution of the solver, and two calls on n-1 in a tree with solution
\* O(2^n) are classified as Tower of Hanoi
C29_EveryPatternReturned ==
    (solution # << >> /\ classification # << >>) =>
        /\ ( /\ recursion_info[1][ClassifiedName].call_count = 2
             /\ recursion_info[1][ClassifiedName].subproblem = <<"n","-","1">>
             /\ recursion_info[1][ClassifiedName].depth_pattern = "tree"
             /\ solution[1].complexity = <<"O","(","2","^","n",")">> )
           => classification[1][ClassifiedName].pattern = "TOWER_OF_HANOI"
        /\ TablePatterns \subseteq PatternsOf(SolvedRelations)

\* C30: after any sequence of enter_scope, exit_scope and capture_step the
\* scope stack is not empty and has the main scope at its bottom, the
\* current scope is the top of the scope stack, the call stack is not empty
\* and has '<main>' at its bottom, and the step counter is the number of
\* steps, each step numbered by its position
C30_TracerInvariant ==
    tracer # << >> =>
        /\ Len(tracer[1].scope_stack) >= 1
        /\ tracer[1].scope_stack[1] = 1
        /\ tracer[1].scopes[1].type = "main"
        /\ tracer[1].current_scope = tracer[1].scope_stack[Len(tracer[1].scope_stack)]
        /\ Len(tracer[1].current_call_stack) >= 1
        /\ tracer[1].current_call_stack[1] = <<"<","m","a","i","n",">">>
        /\ tracer[1].step_counter = Len(tracer[1].steps)
        /\ \A i \in 1..Len(tracer[1].steps) : tracer[1].steps[i].step_id = i - 1

\* exit_scope('procedure') has closed a scope that was not a procedure: the
\* procedure is the current scope again and its name has left the call stack
C30_Witness ==
    /\ tracer # << >>
    /\ Len(tracer[1].scope_stack) = 2
    /\ tracer[1].scopes[tracer[1].current_scope].type = "procedure"
    /\ tracer[1].current_call_stack = <<<<"<","m","a","i","n",">">>>>
    /\ \E i \in 1..Len(tracer[1].scopes) : tracer[1].scopes[i].end_step # << >>
    /\ Len(tracer[1].steps) = MaxSteps
====
